---------------------------- MODULE Spec2Model ----------------------------
(***************************************************************************)
(* Model of the DualShock 4 / DualSense drivers of sc-controller           *)
(* (scc/drivers/ds4drv.py, scc/drivers/ds5drv.py).                         *)
(*                                                                         *)
(* Three specifications share the variables below:                         *)
(*   SpecIds  the daemon's controller list under construction and removal  *)
(*            of controllers of all six driver classes (ID generation);    *)
(*   Spec     one raw-HID / USB controller object through its life:        *)
(*            construction, readiness callbacks, feedback, auto-stop       *)
(*            timer, configure, flush, close, device removal;              *)
(*   SpecCrc  _prepare_buffer_crc applied to buffers drawn from a set.     *)
(* The host daemon, poller, device monitor and scheduler are not part of   *)
(* the two driver files; their few operations used here are modelled from  *)
(* the interface description.                                              *)
(***************************************************************************)
EXTENDS Integers, Sequences, FiniteSets, TLC

VARIABLES
    controllers,   \* daemon.controllers: sequence of [cls, id], in order of add_controller
    lastGen,       \* the last _generate_id call: [cls, id, active] (id = "" before any)
    removedEver,   \* history: some controller has been removed from the daemon
    crcIn,         \* SpecCrc: the buffer as it was before _prepare_buffer_crc
    crcBuf,        \* SpecCrc: the buffer now
    crcPrev,       \* SpecCrc: the buffer before the latest call
    crcRuns,       \* SpecCrc: how many times _prepare_buffer_crc was applied
    kind,          \* Spec: the class of the controller object under study
    hasPoller,     \* Spec: daemon.get_poller() returns a poller
    phase,         \* Spec: "absent", "live", "failed" (constructor raised) or "closed"
    registered,    \* Spec: the controller's descriptor is registered with the poll loop
    handle,        \* Spec: the raw-HID file handle: "none", "open" or "closed"
    removeCb,      \* Spec: the device monitor holds close as removal callback of the device
    devRemoved,    \* Spec: the transport has reported the removal of the device
    mapper,        \* Spec: a mapper is attached (self.mapper)
    self,          \* Spec: the controller's fields
    tasks,         \* Spec: the scheduler's pending tasks [tid, delay]
    io,            \* Spec: the external calls of the latest handler, in order
    ret,           \* Spec: the latest handler, its arguments and how it ended
    stops,         \* Spec: history: auto-stops fired since the latest feedback call
    family,        \* SpecInit: the driver module whose init runs: "ds4" or "ds5"
    drivers,       \* SpecInit: config["drivers"]: [hiddrv, evdevdrv], each "True", "False" or "None"
    HAVE_EVDEV,    \* SpecInit: the evdev module could be imported
    hotplug,       \* SpecInit: the registrations made with register_hotplug_device
    monitor,       \* SpecInit: the callbacks added to the device monitor
    initRet,       \* SpecInit: what init returned: "pending", "True" or "False"
    event,         \* SpecInit: the latest device event and the callbacks it ran
    fnIn,          \* SpecFn: the function under study and its arguments
    fnOut          \* SpecFn: its result, NoOut before the call

idVars == <<controllers, lastGen, removedEver>>

crcVars == <<crcIn, crcBuf, crcPrev, crcRuns>>

drvVars == <<kind, hasPoller, phase, registered, handle, removeCb, devRemoved, mapper,
             self, tasks, io, ret, stops>>

initVars == <<family, drivers, HAVE_EVDEV, hotplug, monitor, initRet, event>>

fnVars == <<fnIn, fnOut>>

\* The variables of the specifications of single functions and of init.
auxVars == <<initVars, fnVars>>

vars == <<controllers, lastGen, removedEver, crcIn, crcBuf, crcPrev, crcRuns,
          kind, hasPoller, phase, registered, handle, removeCb, devRemoved, mapper,
          self, tasks, io, ret, stops,
          family, drivers, HAVE_EVDEV, hotplug, monitor, initRet, event, fnIn, fnOut>>

(***************************************************************************)
(* Bounds of the model.                                                    *)
(***************************************************************************)
MaxControllers == 3     \* controllers registered with the daemon at one time

(***************************************************************************)
(* Driver classes and their family (the base name of their IDs).           *)
(***************************************************************************)
DS4Classes == {"DS4HIDController", "DS4HIDRawController", "DS4EvdevController"}

DS5Classes == {"DS5Controller", "DS5HidRawController", "DS5EvdevController"}

Classes == DS4Classes \cup DS5Classes

Families == {"ds4", "ds5"}

\* The literal each class's _generate_id starts from.
BaseName(cls) == IF cls \in DS4Classes THEN "ds4" ELSE "ds5"

(***************************************************************************)
(* daemon.get_active_ids(): the IDs of the controllers the daemon holds.   *)
(***************************************************************************)
get_active_ids(ctls) == {ctls[i].id : i \in 1..Len(ctls)}

(***************************************************************************)
(* _generate_id: magic_number = 1; id = base; while id is active:          *)
(* id = base + ":" + str(magic_number); magic_number += 1.                 *)
(* The loop is the same in all six classes but for the base name.          *)
(***************************************************************************)
RECURSIVE generate_id_loop(_, _, _, _)
generate_id_loop(base, id, magic_number, active) ==
    IF id \in active
    THEN generate_id_loop(base, base \o ":" \o ToString(magic_number),
                          magic_number + 1, active)
    ELSE id

\* Mutant: the collision loop is missing, the base name is always returned.
generate_id_noloop(cls, active) == BaseName(cls)

\* Mutant: the suffix counter starts at 2 instead of 1.
generate_id_from2(cls, active) ==
    generate_id_loop(BaseName(cls), BaseName(cls), 2, active)

_generate_id(cls, active) ==
    generate_id_loop(BaseName(cls), BaseName(cls), 1, active)

(***************************************************************************)
(* daemon.add_controller / daemon.remove_controller.                       *)
(***************************************************************************)
add_controller(ctls, c) == Append(ctls, c)

remove_controller(ctls, i) ==
    [j \in 1..(Len(ctls) - 1) |-> IF j < i THEN ctls[j] ELSE ctls[j + 1]]

(***************************************************************************)
(* SpecIds: construction and removal of controllers of any class.          *)
(***************************************************************************)
NoGen == [cls |-> "", id |-> "", active |-> {}]

NoEvent == [bus |-> "", pid |-> 0, ran |-> <<>>]

IdleInit ==
    /\ family = ""
    /\ drivers = [hiddrv |-> "None", evdevdrv |-> "None"]
    /\ HAVE_EVDEV = FALSE
    /\ hotplug = {}
    /\ monitor = {}
    /\ initRet = "pending"
    /\ event = NoEvent

NoInp == [fn |-> ""]

NoOut == [fn |-> ""]

IdleFn ==
    /\ fnIn = NoInp
    /\ fnOut = NoOut

IdleAux ==
    /\ IdleInit
    /\ IdleFn

IdleCrc ==
    /\ crcIn = <<>>
    /\ crcBuf = <<>>
    /\ crcPrev = <<>>
    /\ crcRuns = 0

NoSelf == [id |-> "", motor_right |-> 0, motor_left |-> 0, task |-> 0,
           outputs |-> <<>>, old_state |-> <<>>]

NoRet == [handler |-> "", args |-> <<>>, outcome |-> ""]

IdleDrv ==
    /\ kind = ""
    /\ hasPoller = FALSE
    /\ phase = "absent"
    /\ registered = FALSE
    /\ handle = "none"
    /\ removeCb = FALSE
    /\ devRemoved = FALSE
    /\ mapper = FALSE
    /\ self = NoSelf
    /\ tasks = {}
    /\ io = <<>>
    /\ ret = NoRet
    /\ stops = 0

InitIds ==
    /\ controllers = <<>>
    /\ lastGen = NoGen
    /\ removedEver = FALSE
    /\ IdleCrc
    /\ IdleDrv
    /\ IdleAux

\* A controller of class cls is constructed: its __init__ (or its base class's)
\* takes an ID from _generate_id; added = FALSE is a construction that
\* raises after the ID was taken, so that the controller is never added.
ConstructAny(cls, added) ==
    /\ Len(controllers) < MaxControllers
    /\ LET active == get_active_ids(controllers)
           id     == _generate_id(cls, active)
       IN /\ lastGen' = [cls |-> cls, id |-> id, active |-> active]
          /\ controllers' = IF added
                            THEN add_controller(controllers, [cls |-> cls, id |-> id])
                            ELSE controllers
    /\ UNCHANGED <<removedEver, crcVars, drvVars, auxVars>>

\* The i-th controller of the daemon's list is closed and removed.
RemoveAny(i) ==
    /\ i \in 1..Len(controllers)
    /\ controllers' = remove_controller(controllers, i)
    /\ removedEver' = TRUE
    /\ UNCHANGED <<lastGen, crcVars, drvVars, auxVars>>

NextIds ==
    \/ \E cls \in Classes : ConstructAny(cls, TRUE)
    \/ \E cls \in Classes : ConstructAny(cls, FALSE)
    \/ \E i \in 1..MaxControllers : RemoveAny(i)

SpecIds == InitIds /\ [][NextIds]_vars

(***************************************************************************)
(* Helpers of the claims about IDs.                                        *)
(***************************************************************************)
\* The ID the claims call the k-th of a family: "ds4", "ds4:1", "ds4:2", ...
NthId(fam, k) == IF k = 0 THEN fam ELSE fam \o ":" \o ToString(k)

FamilyIndexes(fam) == {i \in 1..Len(controllers) : BaseName(controllers[i].cls) = fam}

\* How many controllers of the family precede position i in the daemon's list.
RankInFamily(fam, i) == Cardinality({j \in FamilyIndexes(fam) : j < i})

\* C1: no two controllers held by the daemon at the same time have the same ID,
\* and the ID _generate_id returned was not in the active set it was given.
C1_UniqueIds ==
    /\ \A i, j \in 1..Len(controllers) :
          controllers[i].id = controllers[j].id => i = j
    /\ lastGen.id # "" => lastGen.id \notin lastGen.active

\* C1 witness: three controllers of one family and of the three transports are
\* registered together, the last one constructed after a removal.
C1_Witness ==
    /\ removedEver
    /\ Len(controllers) = 3
    /\ {controllers[i].cls : i \in 1..3} = DS4Classes
    /\ lastGen.id = controllers[3].id

\* C2 as stated: the registered controllers of a family carry exactly the IDs
\* base, base:1, ..., base:(N-1), in order of construction, whatever was removed.
C2_Original ==
    \A fam \in Families : \A i \in FamilyIndexes(fam) :
        controllers[i].id = NthId(fam, RankInFamily(fam, i))

\* The least k whose ID NthId(fam, k) is free in the active set.
LeastFree(fam, active) ==
    CHOOSE k \in 0..Cardinality(active) :
        /\ NthId(fam, k) \notin active
        /\ \A m \in 0..(k - 1) : NthId(fam, m) \in active

\* C2 amended: each construction takes the lowest free ID of its family; as long
\* as nothing was removed the N registered controllers of a family carry exactly
\* base, base:1, ..., base:(N-1) in order of construction.
C2_LowestFreeId ==
    /\ lastGen.id # "" =>
          lastGen.id = NthId(BaseName(lastGen.cls),
                             LeastFree(BaseName(lastGen.cls), lastGen.active))
    /\ ~removedEver => C2_Original

\* C2 witness: after the first of two DS4 controllers was removed, a new one
\* took the freed "ds4" while "ds4:1" is still registered before it.
C2_Witness ==
    /\ removedEver
    /\ Len(controllers) = 2
    /\ controllers[1].id = "ds4:1"
    /\ controllers[2].id = "ds4"
    /\ lastGen.id = "ds4"


(***************************************************************************)
(* Bytes and 32-bit words.  A 32-bit word is kept as its four bytes, least *)
(* significant first: word[k + 1] is (word >> 8k) & 0xFF.                  *)
(***************************************************************************)
RECURSIVE XorNat(_, _)
XorNat(a, b) ==
    IF a = 0 THEN b
    ELSE IF b = 0 THEN a
    ELSE ((a + b) % 2) + 2 * XorNat(a \div 2, b \div 2)

XorTable == [a \in 0..255 |-> [b \in 0..255 |-> XorNat(a, b)]]

XorByte(a, b) == XorTable[a][b]

Xor32(u, v) ==
    <<XorByte(u[1], v[1]), XorByte(u[2], v[2]), XorByte(u[3], v[3]), XorByte(u[4], v[4])>>

Shr1(u) ==
    <<(u[1] \div 2) + (u[2] % 2) * 128, (u[2] \div 2) + (u[3] % 2) * 128,
      (u[3] \div 2) + (u[4] % 2) * 128, u[4] \div 2>>

Shr8(u) == <<u[2], u[3], u[4], 0>>

Word32Zero == <<0, 0, 0, 0>>

Word32Ones == <<255, 255, 255, 255>>

\* The reflected CRC-32 polynomial 0xEDB88320.
Crc32Poly == <<32, 131, 184, 237>>

\* n steps of the bitwise CRC shift register.
RECURSIVE CrcBitSteps(_, _)
CrcBitSteps(c, n) ==
    IF n = 0 THEN c
    ELSE CrcBitSteps(IF c[1] % 2 = 1 THEN Xor32(Crc32Poly, Shr1(c)) ELSE Shr1(c), n - 1)

\* zlib's table: entry n is n taken through eight steps.
CrcTable == [n \in 0..255 |-> CrcBitSteps(<<n, 0, 0, 0>>, 8)]

CrcByte(crc, b) == Xor32(CrcTable[XorByte(crc[1], b)], Shr8(crc))

\* The register after data[lo..hi], left to right (the halves are taken in
\* turn so that the evaluation stays shallow).
RECURSIVE CrcRange(_, _, _, _)
CrcRange(crc, data, lo, hi) ==
    IF lo > hi THEN crc
    ELSE IF lo = hi THEN CrcByte(crc, data[lo])
    ELSE LET mid  == (lo + hi) \div 2
             left == CrcRange(crc, data, lo, mid)
         IN IF left[1] >= 0 THEN CrcRange(left, data, mid + 1, hi) ELSE left

(***************************************************************************)
(* zlib.crc32(data, value): the running CRC-32 of data, continued from a   *)
(* previous result value (0 to start).                                     *)
(***************************************************************************)
zlib_crc32(data, value) ==
    Xor32(CrcRange(Xor32(value, Word32Ones), data, 1, Len(data)), Word32Ones)

(***************************************************************************)
(* DS5HidRawController._prepare_buffer_crc(buf):                           *)
(*   calcCrc32 = zlib.crc32(b"\xA2")                                       *)
(*   calcCrc32 = zlib.crc32(buf[0:74], calcCrc32)                          *)
(*   buf[74..77] = calcCrc32, calcCrc32 >> 8, >> 16, >> 24 (each & 0xFF)   *)
(* Sequences are 1-based: Python's buf[k] is buf[k + 1] here.              *)
(***************************************************************************)
BT_CRC32_HEAD == 162      \* b"\xA2"

CRC_OFFSET == 74          \* the checksummed range is buf[0:74], the CRC follows it

store_crc(buf, calcCrc32) ==
    [i \in 1..Len(buf) |->
        IF i > CRC_OFFSET /\ i <= CRC_OFFSET + 4 THEN calcCrc32[i - CRC_OFFSET] ELSE buf[i]]

\* Mutant: the 0xA2 header is left out of the checksum.
prepare_buffer_crc_nohead(buf) ==
    store_crc(buf, zlib_crc32(SubSeq(buf, 1, CRC_OFFSET), Word32Zero))

\* Mutant: the checksum is written most significant byte first.
prepare_buffer_crc_bigendian(buf) ==
    LET c == zlib_crc32(SubSeq(buf, 1, CRC_OFFSET), zlib_crc32(<<BT_CRC32_HEAD>>, Word32Zero))
    IN store_crc(buf, <<c[4], c[3], c[2], c[1]>>)

_prepare_buffer_crc(buf) ==
    LET head      == zlib_crc32(<<BT_CRC32_HEAD>>, Word32Zero)
        calcCrc32 == zlib_crc32(SubSeq(buf, 1, CRC_OFFSET), head)
    IN store_crc(buf, calcCrc32)

(***************************************************************************)
(* SpecCrc: _prepare_buffer_crc applied once and again to 78-byte buffers. *)
(***************************************************************************)
BT_FRAME_SIZE == 78       \* sizeof(DualSenseHIDOutputBT)

\* A 78-byte buffer: mode byte m, motor bytes r and l, last checksummed byte t,
\* and c in all four CRC bytes.
CrcTestBuffer(m, r, l, t, c) ==
    [i \in 1..BT_FRAME_SIZE |->
        CASE i = 1 -> m
          [] i = 5 -> r
          [] i = 6 -> l
          [] i = 74 -> t
          [] i > 74 -> c
          [] OTHER -> 0]

CrcTestBuffers ==
    {CrcTestBuffer(m, r, l, t, c) :
        m \in {0, 49}, r \in {0, 127, 255}, l \in {0, 128}, t \in {0, 255}, c \in {0, 170}}

IdleIds ==
    /\ controllers = <<>>
    /\ lastGen = NoGen
    /\ removedEver = FALSE

InitCrc ==
    /\ crcIn \in CrcTestBuffers
    /\ crcBuf = crcIn
    /\ crcPrev = crcIn
    /\ crcRuns = 0
    /\ IdleIds
    /\ IdleDrv
    /\ IdleAux

PrepareCrc ==
    /\ crcRuns < 2
    /\ crcBuf' = _prepare_buffer_crc(crcBuf)
    /\ crcPrev' = crcBuf
    /\ crcRuns' = crcRuns + 1
    /\ UNCHANGED <<crcIn, idVars, drvVars, auxVars>>

NextCrc == PrepareCrc

SpecCrc == InitCrc /\ [][NextCrc]_vars

(***************************************************************************)
(* Reference CRC-32 of the claims: the bitwise shift register over the     *)
(* whole message, without zlib's table and without chaining.               *)
(***************************************************************************)
RefByte(crc, b) == CrcBitSteps(<<XorNat(crc[1], b), crc[2], crc[3], crc[4]>>, 8)

RECURSIVE RefRange(_, _, _, _)
RefRange(crc, data, lo, hi) ==
    IF lo > hi THEN crc
    ELSE IF lo = hi THEN RefByte(crc, data[lo])
    ELSE LET mid  == (lo + hi) \div 2
             left == RefRange(crc, data, lo, mid)
         IN IF left[1] >= 0 THEN RefRange(left, data, mid + 1, hi) ELSE left

Crc32Ref(msg) == Xor32(RefRange(Word32Ones, msg, 1, Len(msg)), Word32Ones)

\* Bytes 74..77 of a frame are the little-endian CRC-32 of 0xA2 followed by
\* the frame's bytes 0..73.
CrcFramed(frame) ==
    /\ Len(frame) = 78
    /\ SubSeq(frame, 75, 78) = Crc32Ref(<<162>> \o SubSeq(frame, 1, 74))

\* C4: _prepare_buffer_crc writes into bytes 74..77 the little-endian CRC-32 of
\* 0xA2 followed by bytes 0..73, leaves bytes 0..73 as they were, and applied to
\* its own result changes no byte.
C4_PrepareBufferCrc ==
    /\ crcRuns >= 1 =>
          /\ CrcFramed(crcBuf)
          /\ SubSeq(crcBuf, 1, 74) = SubSeq(crcIn, 1, 74)
    /\ crcRuns = 2 => crcBuf = crcPrev

\* C4 witness: the function ran twice on a buffer whose CRC bytes held other
\* values before, and whose checksummed range is not all zero.
C4_Witness ==
    /\ crcRuns = 2
    /\ crcIn[1] = 49 /\ crcIn[5] = 255 /\ crcIn[74] = 255
    /\ SubSeq(crcIn, 75, 78) = <<170, 170, 170, 170>>
    /\ SubSeq(crcBuf, 75, 78) # SubSeq(crcIn, 75, 78)

(***************************************************************************)
(* The output report structures of ds5drv.py and their serialisation.      *)
(* A structure is a record of the fields the driver sets; every other      *)
(* field keeps ctypes' zero.  bytearray(struct) lays the fields out in     *)
(* declaration order, one byte each (1-based position = offset + 1).       *)
(***************************************************************************)
DS5_MODE == 2                    \* OperatingMode.DS5_MODE = 1 << 1

DS5_MODE_BT == 49                \* OperatingMode.DS5_MODE_BT = 1 << 5 | 1 << 4 | 1 << 0

ENABLE_HAPTICS == 3              \* PhysicalEffectControl.ENABLE_HAPTICS = 1 << 0 | 1 << 1

LIGHTBAR_CONTROL_ENABLE == 4     \* LightEffectControl.LIGHTBAR_CONTROL_ENABLE = 1 << 2

\* ctypes stores an integer in a one-byte field modulo 256, without a range check.
c_ubyte(v) == v % 256

ZeroStruct ==
    [operating_mode |-> 0, data_id_byte |-> 0, physical_effect_control |-> 0,
     light_effect_control |-> 0, motor_right |-> 0, motor_left |-> 0,
     lightbar_red |-> 0, lightbar_green |-> 0, lightbar_blue |-> 0]

\* bytearray(DualSenseHIDOutput): 48 bytes.
DualSenseHIDOutput(s) ==
    [i \in 1..48 |->
        CASE i = 1 -> c_ubyte(s.operating_mode)
          [] i = 2 -> c_ubyte(s.physical_effect_control)
          [] i = 3 -> c_ubyte(s.light_effect_control)
          [] i = 4 -> c_ubyte(s.motor_right)
          [] i = 5 -> c_ubyte(s.motor_left)
          [] i = 46 -> c_ubyte(s.lightbar_red)
          [] i = 47 -> c_ubyte(s.lightbar_green)
          [] i = 48 -> c_ubyte(s.lightbar_blue)
          [] OTHER -> 0]

\* bytearray(DualSenseHIDOutputBT): 78 bytes, the last four the crc32 field.
DualSenseHIDOutputBT(s) ==
    [i \in 1..BT_FRAME_SIZE |->
        CASE i = 1 -> c_ubyte(s.operating_mode)
          [] i = 2 -> c_ubyte(s.data_id_byte)
          [] i = 3 -> c_ubyte(s.physical_effect_control)
          [] i = 4 -> c_ubyte(s.light_effect_control)
          [] i = 5 -> c_ubyte(s.motor_right)
          [] i = 6 -> c_ubyte(s.motor_left)
          [] i = 47 -> c_ubyte(s.lightbar_red)
          [] i = 48 -> c_ubyte(s.lightbar_green)
          [] i = 49 -> c_ubyte(s.lightbar_blue)
          [] OTHER -> 0]

\* bytes(bytearray(output).ljust(64, b'\x00')) of DS5Controller.flush.
ljust64(data) == [i \in 1..64 |-> IF i <= Len(data) THEN data[i] ELSE 0]

\* self._feedback_output of the USB controller with the motor fields as they are.
feedback_output_usb(motor_right, motor_left) ==
    [ZeroStruct EXCEPT !.operating_mode = DS5_MODE,
                       !.physical_effect_control = ENABLE_HAPTICS,
                       !.motor_right = motor_right,
                       !.motor_left = motor_left]

\* self._feedback_output of the Bluetooth controller with the motor fields as they are.
feedback_output_bt(motor_right, motor_left) ==
    [ZeroStruct EXCEPT !.operating_mode = DS5_MODE_BT,
                       !.data_id_byte = 2,
                       !.physical_effect_control = ENABLE_HAPTICS,
                       !.motor_right = motor_right,
                       !.motor_left = motor_left]

\* init_output of _set_operational.
init_output ==
    [ZeroStruct EXCEPT !.operating_mode = DS5_MODE_BT,
                       !.data_id_byte = 2,
                       !.light_effect_control = 85,
                       !.lightbar_blue = 200]

(***************************************************************************)
(* feedback: motor amplitudes and the delay of the auto-stop.              *)
(***************************************************************************)
\* int(x) of a quotient n / d with d > 0: truncation toward zero.
int_div(n, d) == IF n >= 0 THEN n \div d ELSE -((-n) \div d)

\* clamped_amp = int(float(amplitude) / 0x8000 * 0xff)
clamped_amp(amplitude) == int_div(amplitude * 255, 32768)

\* half_amp = int(float(amplitude) / 0x8000 * 0x80)
half_amp(amplitude) == int_div(amplitude * 128, 32768)

HapticPos == {"LEFT", "RIGHT", "BOTH"}

\* Mutant: every position sets both motor fields.
set_motors_both(position, amplitude, motor_right, motor_left) ==
    [motor_right |-> c_ubyte(clamped_amp(amplitude)),
     motor_left  |-> c_ubyte(half_amp(amplitude))]

\* The motor fields after the position branches of feedback; a field holds
\* the byte ctypes stored.
set_motors(position, amplitude, motor_right, motor_left) ==
    [motor_right |-> IF position \in {"RIGHT", "BOTH"}
                     THEN c_ubyte(clamped_amp(amplitude)) ELSE motor_right,
     motor_left  |-> IF position \in {"LEFT", "BOTH"}
                     THEN c_ubyte(half_amp(amplitude)) ELSE motor_left]

\* Durations are exact rationals: an integer number of 1/(100 * 0x10000) s.
USB_FLOOR == 2      \* max(duration, 0.02): hundredths of a second

BT_FLOOR == 5       \* max(duration, 0.05): hundredths of a second

Max(a, b) == IF a >= b THEN a ELSE b

\* duration = max(float(period) * count / 0x10000, floor)
feedback_duration_nofloor(period, count, floor) == period * count * 100

feedback_duration(period, count, floor) ==
    Max(period * count * 100, floor * 65536)

(***************************************************************************)
(* configure: the lightbar colour chosen from the icon name.  An icon name *)
(* is a sequence of one-character strings; <<>> is None (or "").           *)
(***************************************************************************)
\* ICON_COLORS, each component in tenths.
ICON_COLORS ==
    <<  <<0, 10, 0>>, <<0, 0, 10>>, <<10, 0, 0>>, <<10, 10, 0>>,
        <<0, 10, 10>>, <<10, 4, 0>>, <<10, 0, 10>>  >>

\* The greatest position of sep in s, 0 if there is none.
rfind(s, sep) ==
    LET at == {i \in 1..Len(s) : s[i] = sep}
    IN IF at = {} THEN 0 ELSE CHOOSE i \in at : \A j \in at : j <= i

\* s.rsplit(sep, 1): one part if sep does not occur, else the parts before and
\* after its last occurrence.
rsplit1(s, sep) ==
    LET k == rfind(s, sep)
    IN IF k = 0 THEN <<s>> ELSE <<SubSeq(s, 1, k - 1), SubSeq(s, k + 1, Len(s))>>

Digits == <<"0", "1", "2", "3", "4", "5", "6", "7", "8", "9">>

IsDigit(ch) == \E d \in 1..10 : Digits[d] = ch

DigitValue(ch) == (CHOOSE d \in 1..10 : Digits[d] = ch) - 1

\* int(raw_idx) of a string of letters, digits, '-' and '.': it parses exactly
\* the non-empty strings of decimal digits; -1 stands for ValueError.
RECURSIVE int_of(_)
int_of(raw_idx) ==
    IF raw_idx = <<>> \/ \E i \in 1..Len(raw_idx) : ~IsDigit(raw_idx[i])
    THEN -1
    ELSE IF Len(raw_idx) = 1 THEN DigitValue(raw_idx[1])
    ELSE 10 * int_of(SubSeq(raw_idx, 1, Len(raw_idx) - 1)) + DigitValue(raw_idx[Len(raw_idx)])

\* The unpacking basename, ext = icon.rsplit('.', 1) raises ValueError when
\* the name has no '.'.
configure_raises(icon) == icon # <<>> /\ Len(rsplit1(icon, ".")) # 2

\* lightbar_color of configure (precondition: ~configure_raises(icon)).
lightbar_color(icon) ==
    IF icon = <<>> THEN <<0, 0, 10>>
    ELSE LET basename == rsplit1(icon, ".")[1]
             parts    == rsplit1(basename, "-")
             raw_idx  == parts[Len(parts)]
             icon_idx == int_of(raw_idx)
         IN IF icon_idx >= 0 /\ icon_idx < Len(ICON_COLORS)
            THEN ICON_COLORS[icon_idx + 1]
            ELSE <<0, 0, 10>>

\* lightbar_color_bytes: int(color_norm * (float(led_level) / 100) * 255).
lightbar_color_bytes(icon, led_level) ==
    LET color == lightbar_color(icon)
    IN [k \in 1..3 |-> int_div(color[k] * led_level * 255, 1000)]

\* output of DS5Controller.configure.
configure_output_usb(icon, led_level) ==
    LET rgb == lightbar_color_bytes(icon, led_level)
    IN [ZeroStruct EXCEPT !.operating_mode = DS5_MODE,
                          !.light_effect_control = LIGHTBAR_CONTROL_ENABLE,
                          !.lightbar_red = rgb[1],
                          !.lightbar_green = rgb[2],
                          !.lightbar_blue = rgb[3]]

\* output of DS5HidRawController.configure.
configure_output_bt(icon, led_level) ==
    LET rgb == lightbar_color_bytes(icon, led_level)
    IN [ZeroStruct EXCEPT !.operating_mode = DS5_MODE_BT,
                          !.data_id_byte = 2,
                          !.light_effect_control = LIGHTBAR_CONTROL_ENABLE,
                          !.lightbar_red = rgb[1],
                          !.lightbar_green = rgb[2],
                          !.lightbar_blue = rgb[3]]

(***************************************************************************)
(* self._outputs: a dict, here the sequence of its items in insertion      *)
(* order.  An item is [key, alias, data]: alias = TRUE when the value is   *)
(* the object self._feedback_output itself (USB), whose bytes are read     *)
(* only when it is written; otherwise data holds the staged bytes.         *)
(***************************************************************************)
\* Mutant: every staging adds an item, whether or not the key is pending.
schedule_output_append(outputs, key, alias, data) ==
    Append(outputs, [key |-> key, alias |-> alias, data |-> data])

schedule_output(outputs, key, alias, data) ==
    LET item == [key |-> key, alias |-> alias, data |-> data]
    IN IF \E i \in 1..Len(outputs) : outputs[i].key = key
       THEN [i \in 1..Len(outputs) |-> IF outputs[i].key = key THEN item ELSE outputs[i]]
       ELSE Append(outputs, item)

(***************************************************************************)
(* mapper.schedule(delay, callback) and Task.cancel() of the host: the     *)
(* scheduler holds the pending tasks; a task leaves the set when it is     *)
(* cancelled or run, and cancelling an absent task does nothing.           *)
(***************************************************************************)
schedule(pending, tid, delay) == pending \cup {[tid |-> tid, delay |-> delay]}

cancel(pending, tid) == {t \in pending : t.tid # tid}

\* A task object distinct from every pending task and from the one referenced.
new_task(pending, task) ==
    CHOOSE n \in 1..(Cardinality(pending) + 2) :
        /\ n # task
        /\ \A t \in pending : t.tid # n
        /\ \A m \in 1..(n - 1) : m = task \/ \E t \in pending : t.tid = m

\* Mutant: the earlier task is left pending.
cancel_previous_skipped(pending, task) == pending

\* if self._feedback_cancel_task: self._feedback_cancel_task.cancel()
\* (task = 0 is None).
cancel_previous(pending, task) ==
    IF task # 0 THEN cancel(pending, task) ELSE pending

(***************************************************************************)
(* The readiness callbacks _input of the Bluetooth raw-HID controllers.    *)
(***************************************************************************)
BtClasses == {"DS4HIDRawController", "DS5HidRawController"}

DS4_INPUT_REPORT == 17      \* if data[0] != 0x11: return

DS5_INPUT_REPORT == 49      \* if tempdata[0] != 0x31: return

\* Mutant: the first byte is not looked at.
input_accepts_any(cls, data) == TRUE

\* The frame passes the check of its first byte.
input_accepts(cls, data) ==
    IF cls = "DS4HIDRawController"
    THEN data[1] = DS4_INPUT_REPORT
    ELSE data[1] = DS5_INPUT_REPORT

\* Mutant: the payload starts one byte early.
ds4_payload_from1(data) == SubSeq(data, 2, Len(data))

\* data[2:] of DS4HIDRawController._input.
ds4_payload(data) == SubSeq(data, 3, Len(data))

\* _lib.decode of the host's HID decoder: it keeps the decoded state and
\* tells whether the report changed it.  The decoded state is kept as the
\* report's bytes.
decode_changed(old_state, data) == old_state # data

(***************************************************************************)
(* DS5HidRawController._stick_axis_scale.                                  *)
(***************************************************************************)
\* The host's normalised axis range (scc.constants).
STICK_PAD_MIN == -32768

STICK_PAD_MAX == 32767

STICK_PAD_RES == 65535

\* Mutant: the conversion to an integer rounds down.
stick_axis_scale_floor(value, invert) ==
    LET result == value - 128
        den    == IF value >= 128 THEN 127 ELSE 128
        num    == IF invert THEN -result ELSE result
    IN ((num + den) * STICK_PAD_RES + 2 * den * STICK_PAD_MIN) \div (2 * den)

\* result = value - 128; tempRatio = result / 127.0 or result / 128.0,
\* negated if invert; tempRatio = (tempRatio + 1.0) * 0.5;
\* int(tempRatio * STICK_PAD_RES + STICK_PAD_MIN).  With tempRatio = num / den
\* the argument of int is ((num + den) * RES + 2 * den * MIN) / (2 * den); the
\* floating-point evaluation gives the same integer for all 512 arguments.
_stick_axis_scale(value, invert) ==
    LET result == value - 128
        den    == IF value >= 128 THEN 127 ELSE 128
        num    == IF invert THEN -result ELSE result
    IN int_div((num + den) * STICK_PAD_RES + 2 * den * STICK_PAD_MIN, 2 * den)

\* bit k of a byte: (byte & (1 << k)) != 0.
bit(byte, k) == (byte \div 2^k) % 2 = 1

\* DPAD_STATE_TYPES: the (x, y) values of the nine D-pad states.
DPAD_STATE_TYPES ==
    [v \in 0..8 |->
        CASE v = 0 -> [x |-> 0, y |-> STICK_PAD_MAX]
          [] v = 1 -> [x |-> STICK_PAD_MAX, y |-> STICK_PAD_MAX]
          [] v = 2 -> [x |-> STICK_PAD_MAX, y |-> 0]
          [] v = 3 -> [x |-> STICK_PAD_MAX, y |-> STICK_PAD_MIN]
          [] v = 4 -> [x |-> 0, y |-> STICK_PAD_MIN]
          [] v = 5 -> [x |-> STICK_PAD_MIN, y |-> STICK_PAD_MIN]
          [] v = 6 -> [x |-> STICK_PAD_MIN, y |-> 0]
          [] v = 7 -> [x |-> STICK_PAD_MIN, y |-> STICK_PAD_MAX]
          [] v = 8 -> [x |-> 0, y |-> 0]]

DPAD_CENTERED_STATE == [x |-> 0, y |-> 0]

\* d.get(k, default) of a dict.
dict_get(d, k, default) == IF k \in DOMAIN d THEN d[k] ELSE default

\* The D-pad part of _convert_input_data: unless the low nibble of data[9]
\* is 8 the flags are set and lpad_x, lpad_y taken from the table, with the
\* centred pair for a nibble the table lacks; else they stay 0.
dpad(tempbyte) ==
    LET dpad_state == tempbyte % 16
        tempDPad   == dict_get(DPAD_STATE_TYPES, dpad_state, DPAD_CENTERED_STATE)
    IN IF dpad_state # 8
       THEN [buttons |-> {"LPAD", "LPADTOUCH"}, lpad_x |-> tempDPad.x, lpad_y |-> tempDPad.y]
       ELSE [buttons |-> {}, lpad_x |-> 0, lpad_y |-> 0]

\* Mutant: the bits of RT and LT are swapped.
buttons_of_triggers_swapped(b9, b10, b11, b34) ==
    {<<"Y", "B", "A", "X">>[8 - k] : k \in {k \in 4..7 : bit(b9, k)}}
    \cup dpad(b9).buttons
    \cup {<<"RPAD", "STICKPRESS", "START", "BACK", "LT", "RT", "RB", "LB">>[8 - k] :
             k \in {k \in 0..7 : bit(b10, k)}}
    \cup (IF bit(b11, 0) THEN {"C"} ELSE {})
    \cup (IF bit(b11, 1) THEN {"CPADPRESS"} ELSE {})
    \cup (IF ~bit(b34, 7) THEN {"CPADTOUCH"} ELSE {})

\* The buttons _convert_input_data sets from data[9], data[10], data[11]
\* and data[34].
buttons_of(b9, b10, b11, b34) ==
    {<<"Y", "B", "A", "X">>[8 - k] : k \in {k \in 4..7 : bit(b9, k)}}
    \cup dpad(b9).buttons
    \cup {<<"RPAD", "STICKPRESS", "START", "BACK", "RT", "LT", "RB", "LB">>[8 - k] :
             k \in {k \in 0..7 : bit(b10, k)}}
    \cup (IF bit(b11, 0) THEN {"C"} ELSE {})
    \cup (IF bit(b11, 1) THEN {"CPADPRESS"} ELSE {})
    \cup (IF ~bit(b34, 7) THEN {"CPADTOUCH"} ELSE {})

\* _convert_input_data without the motion fields (Python's data[k] is
\* data[k + 1] here).
_convert_input_data(data) ==
    [stick_x |-> _stick_axis_scale(data[3], FALSE),
     stick_y |-> _stick_axis_scale(data[4], TRUE),
     rpad_x |-> _stick_axis_scale(data[5], FALSE),
     rpad_y |-> _stick_axis_scale(data[6], TRUE),
     ltrig  |-> data[7],
     rtrig  |-> data[8],
     buttons |-> buttons_of(data[10], data[11], data[12], data[35]),
     lpad_x |-> dpad(data[10]).lpad_x,
     lpad_y |-> dpad(data[10]).lpad_y,
     cpad_x |-> (data[37] % 16) * 256 + data[36],
     cpad_y |-> (data[38] % 16) * 16 + data[37] \div 16]

\* A 78-byte input report: first byte b0, left trigger byte and low touchpad
\* byte v.
InputFrame(b0, v) ==
    [i \in 1..BT_FRAME_SIZE |->
        CASE i = 1 -> b0
          [] i = 2 -> 192
          [] i = 7 -> v
          [] i = 36 -> v
          [] OTHER -> 0]

InputFrames == {InputFrame(b0, v) : b0 \in {1, 17, 49}, v \in {0, 200}}

(***************************************************************************)
(* External calls of a handler are recorded in io; reg and hnd are the     *)
(* poll-loop registration and the handle's state when the call is made.    *)
(***************************************************************************)
Call(op, data, reg, hnd) == [op |-> op, data |-> data, reg |-> reg, hnd |-> hnd]

\* An exception leaving the handler after the call recorded before it.
Raise(reg, hnd) == Call("raise", <<>>, reg, hnd)

Ops(calls) == [i \in 1..Len(calls) |-> calls[i].op]

(***************************************************************************)
(* close of the Bluetooth raw-HID controllers.                             *)
(***************************************************************************)
\* Mutant: the handle is closed first.
close_steps_handle_first(poller) ==
    <<"close", "remove_controller">> \o (IF poller THEN <<"unregister">> ELSE <<>>)

\* The calls of close, in order; unregister only under "if self._poller".
close_steps(poller) ==
    (IF poller THEN <<"unregister">> ELSE <<>>) \o <<"remove_controller", "close">>

\* daemon.remove_controller(self): the controller with this ID leaves the
\* list; nothing happens when it is not in it.
remove_self(ctls, id) ==
    IF \E i \in 1..Len(ctls) : ctls[i].id = id
    THEN remove_controller(ctls, CHOOSE i \in 1..Len(ctls) : ctls[i].id = id)
    ELSE ctls

\* The state after running steps[k..] from st = [reg, ctls, hnd, io].
RECURSIVE run_close(_, _, _, _)
run_close(steps, k, id, st) ==
    IF k > Len(steps) THEN st
    ELSE LET op   == steps[k]
             done == [reg  |-> IF op = "unregister" THEN FALSE ELSE st.reg,
                      ctls |-> IF op = "remove_controller"
                               THEN remove_self(st.ctls, id) ELSE st.ctls,
                      hnd  |-> IF op = "close" THEN "closed" ELSE st.hnd,
                      io   |-> Append(st.io, Call(op, <<>>, st.reg, st.hnd))]
         IN run_close(steps, k + 1, id, done)

\* close(): the registration, daemon list, handle and calls after it.
close(poller, id, reg, ctls, hnd) ==
    run_close(close_steps(poller), 1, id, [reg |-> reg, ctls |-> ctls, hnd |-> hnd, io |-> <<>>])

(***************************************************************************)
(* Spec: one controller object of class kind through its life.             *)
(***************************************************************************)
StudiedClasses == {"DS4HIDRawController", "DS5HidRawController", "DS5Controller"}

InitDrv ==
    /\ kind \in StudiedClasses
    /\ hasPoller \in BOOLEAN
    /\ phase = "absent"
    /\ registered = FALSE
    /\ handle = "none"
    /\ removeCb = FALSE
    /\ devRemoved = FALSE
    /\ mapper = FALSE
    /\ self = NoSelf
    /\ tasks = {}
    /\ io = <<>>
    /\ ret = NoRet
    /\ stops = 0
    /\ IdleIds
    /\ IdleCrc
    /\ IdleAux

\* The frame _set_operational stages and flushes.
init_frame == _prepare_buffer_crc(DualSenseHIDOutputBT(init_output))

\* Mutant: the descriptor is registered with the poll loop before
\* _set_operational runs.
construct_steps_register_first(cls, poller) ==
    <<"get_hidraw", "open", "getName", "get_active_ids">>
    \o (IF poller THEN <<"register">> ELSE <<>>)
    \o (IF cls = "DS5HidRawController"
        THEN <<"getFeatureReport", "flush", "write", "read">> ELSE <<>>)
    \o <<"getPhysicalAddress">>
    \o (IF cls = "DS5HidRawController" THEN <<"add_remove_callback">> ELSE <<>>)
    \o <<"add_controller">>

\* The external calls of make_bt_hidraw_callback and of the constructor it
\* runs, in order.  DS4HIDRawController has _set_operational and the
\* add_remove_callback line commented out.
construct_steps(cls, poller) ==
    <<"get_hidraw", "open", "getName", "get_active_ids">>
    \o (IF cls = "DS5HidRawController"
        THEN <<"getFeatureReport", "flush", "write", "read">> ELSE <<>>)
    \o <<"getPhysicalAddress">>
    \o (IF poller THEN <<"register">> ELSE <<>>)
    \o (IF cls = "DS5HidRawController" THEN <<"add_remove_callback">> ELSE <<>>)
    \o <<"add_controller">>

\* The calls on the device node, which may raise OSError.
DeviceCalls == {"open", "getName", "getFeatureReport", "write", "read", "getPhysicalAddress"}

\* The calls of the constructor into the daemon; they may raise as well.  One
\* that raises has registered or added nothing.
HostCalls == {"register", "add_remove_callback", "add_controller"}

RaisingCalls == DeviceCalls \cup HostCalls

\* The state after running steps[k..] from
\* st = [reg, ctls, hnd, cb, id, io, ok]; the call named failAt raises
\* (get_hidraw: returns None) and ends the run with ok = FALSE.
RECURSIVE run_construct(_, _, _, _, _)
run_construct(cls, steps, k, failAt, st) ==
    IF k > Len(steps) THEN st
    ELSE LET op     == steps[k]
             data   == CASE op = "flush" -> schedule_output(<<>>, "init", FALSE, init_frame)
                         [] op = "write" -> init_frame
                         [] op = "getFeatureReport" -> <<9>>
                         [] op = "read" -> <<BT_FRAME_SIZE>>
                         [] OTHER -> <<>>
             called == [st EXCEPT !.io = Append(st.io, Call(op, data, st.reg, st.hnd))]
             done   ==
                 CASE op = "open" -> [called EXCEPT !.hnd = "open"]
                   [] op = "get_active_ids" ->
                        [called EXCEPT !.id = _generate_id(cls, get_active_ids(st.ctls))]
                   [] op = "register" -> [called EXCEPT !.reg = TRUE]
                   [] op = "add_remove_callback" -> [called EXCEPT !.cb = TRUE]
                   [] op = "add_controller" ->
                        [called EXCEPT !.ctls = add_controller(st.ctls, [cls |-> cls, id |-> st.id])]
                   [] OTHER -> called
         IN IF op = failAt
            THEN [called EXCEPT !.ok = FALSE,
                                !.io = IF op \in RaisingCalls
                                       THEN Append(@, Raise(st.reg, st.hnd)) ELSE @]
            ELSE run_construct(cls, steps, k + 1, failAt, done)

\* Mutant: only the open of the node is inside the try.
guarded_open_only(op) == op = "open"

\* The calls inside `try: ... except Exception`: the open of the node and
\* the whole constructor; get_hidraw is called before the try.
guarded(op) == op # "get_hidraw"

\* The device monitor reports a Bluetooth device: make_bt_hidraw_callback
\* opens the node and constructs the controller; every exception is logged
\* and None returned.  A handle no object refers to any more is closed; the
\* poll loop and the device monitor keep the object they were handed.
MakeBtHidrawCallback(failAt) ==
    /\ kind \in BtClasses
    /\ phase = "absent"
    /\ failAt \in RaisingCalls \cup {"get_hidraw", "none"}
    /\ \E k \in 1..Len(construct_steps(kind, hasPoller)) :
          failAt \in {"none", construct_steps(kind, hasPoller)[k]}
    /\ LET st == run_construct(kind, construct_steps(kind, hasPoller), 1, failAt,
                     [reg |-> FALSE, ctls |-> controllers, hnd |-> "none", cb |-> FALSE,
                      id |-> "", io |-> <<>>, ok |-> TRUE])
       IN /\ phase' = IF st.ok THEN "live" ELSE IF failAt = "get_hidraw" THEN "absent" ELSE "failed"
          /\ registered' = st.reg
          /\ controllers' = st.ctls
          /\ handle' = IF st.ok \/ st.hnd = "none" \/ st.reg \/ st.cb THEN st.hnd ELSE "closed"
          /\ removeCb' = st.cb
          /\ self' = IF st.ok THEN [NoSelf EXCEPT !.id = st.id] ELSE NoSelf
          /\ io' = st.io
          /\ ret' = [handler |-> "make_bt_hidraw_callback", args |-> <<failAt>>,
                     outcome |-> IF failAt \in RaisingCalls /\ ~guarded(failAt)
                                 THEN "raised" ELSE "returned"]
    /\ UNCHANGED <<kind, hasPoller, devRemoved, mapper, tasks, stops,
                   lastGen, removedEver, crcVars, auxVars>>

\* hid_callback of init: DS5Controller(device, daemon, handle, None, None).
\* The constructor sets its own fields and leaves all else to the host's
\* HIDController.__init__, which takes the ID and adds the controller.
HidCallback ==
    /\ kind = "DS5Controller"
    /\ phase = "absent"
    /\ LET id == _generate_id(kind, get_active_ids(controllers))
       IN /\ self' = [NoSelf EXCEPT !.id = id]
          /\ controllers' = add_controller(controllers, [cls |-> kind, id |-> id])
    /\ phase' = "live"
    /\ handle' = "open"
    /\ io' = <<>>
    /\ ret' = [handler |-> "hid_callback", args |-> <<>>, outcome |-> "returned"]
    /\ UNCHANGED <<kind, hasPoller, registered, removeCb, devRemoved, mapper, tasks, stops,
                   lastGen, removedEver, crcVars, auxVars>>

\* The host attaches a mapper to the controller or detaches it.
SetMapper(m) ==
    /\ phase = "live"
    /\ mapper # m
    /\ mapper' = m
    /\ io' = <<>>
    /\ ret' = [handler |-> "set_mapper", args |-> <<m>>, outcome |-> "returned"]
    /\ UNCHANGED <<kind, hasPoller, phase, registered, handle, removeCb, devRemoved,
                   self, tasks, stops, idVars, crcVars, auxVars>>

(***************************************************************************)
(* Inputs of the handlers.                                                 *)
(***************************************************************************)
MaxPending == 2      \* feedback is not called with this many tasks pending

Amplitudes == {20000}

\* (period, count): below both floors, between them, above both, and zero.
Pulses == {<<1024, 1>>, <<1024, 3>>, <<32768, 2>>, <<0, 0>>}

Icons ==
    {<<>>,
     <<"a", "-", "5", ".", "b">>,
     <<"a", "-", "1", "0", ".", "b">>,
     <<"a", ".", "b">>,
     <<"a", "-", "5">>}

LedLevels == {100, 50}

RightBytes == {0} \cup {c_ubyte(clamped_amp(a)) : a \in Amplitudes}

LeftBytes == {0} \cup {c_ubyte(half_amp(a)) : a \in Amplitudes}

\* tempman of feedback and of clear_feedback after _prepare_buffer_crc.
bt_feedback_frame(motor_right, motor_left) ==
    _prepare_buffer_crc(DualSenseHIDOutputBT(feedback_output_bt(motor_right, motor_left)))

\* tempbuffer of configure after _prepare_buffer_crc.
bt_configure_frame(icon, led_level) ==
    _prepare_buffer_crc(DualSenseHIDOutputBT(configure_output_bt(icon, led_level)))

\* The frames of the motor bytes and configure arguments above, computed once.
FeedbackFrames ==
    [r \in RightBytes |-> [l \in LeftBytes |-> bt_feedback_frame(r, l)]]

ConfigureFrames ==
    [icon \in {i \in Icons : ~configure_raises(i)} |->
        [led_level \in LedLevels |-> bt_configure_frame(icon, led_level)]]

\* self._hidrawdev.write / read raise on a closed handle, on a removed
\* device, and whenever the transport fails (fails).
transport_raises(hnd, removed, fails) == hnd # "open" \/ removed \/ fails

floor_of(cls) == IF cls = "DS5Controller" THEN USB_FLOOR ELSE BT_FLOOR

DS5Feedback == {"DS5Controller", "DS5HidRawController"}

\* The bytes of a staged item when it is written.
output_bytes(item, motor_right, motor_left) ==
    IF item.alias
    THEN DualSenseHIDOutput(feedback_output_usb(motor_right, motor_left))
    ELSE item.data

\* What flush hands to the transport for an item: DS5Controller pads to 64
\* bytes for interruptWrite(3, data); DS5HidRawController writes the staged
\* bytearray as it is.
flush_bytes(cls, item, motor_right, motor_left) ==
    IF cls = "DS5Controller"
    THEN ljust64(output_bytes(item, motor_right, motor_left))
    ELSE item.data

flush_op(cls) == IF cls = "DS5Controller" THEN "interruptWrite" ELSE "write"

\* flush(): while self._outputs: popitem (the item inserted last), write.
\* The failAt-th write raises (0: none): the item it popped is gone, the
\* items not yet popped stay.  Result: the map after it, the calls made
\* (first the entry into flush with the map as it was), and whether it raised.
flush(cls, outputs, motor_right, motor_left, failAt, reg, hnd) ==
    LET n       == Len(outputs)
        written == IF failAt = 0 THEN n ELSE failAt
    IN [outputs |-> SubSeq(outputs, 1, n - written),
        io      |-> <<Call("flush", outputs, reg, hnd)>>
                    \o [k \in 1..written |->
                          Call(flush_op(cls),
                               flush_bytes(cls, outputs[n + 1 - k], motor_right, motor_left),
                               reg, hnd)]
                    \o (IF failAt # 0 THEN <<Raise(reg, hnd)>> ELSE <<>>),
        raised  |-> failAt # 0]

\* No flush: the staged map is left as it is.
no_flush(outputs) == [outputs |-> outputs, io |-> <<>>, raised |-> FALSE]

\* Mutant: the Bluetooth controller stages and leaves the write to the
\* flush of the next input cycle.
stage_unflushed(cls, outputs, key, data, motor_right, motor_left, raises, reg, hnd) ==
    no_flush(schedule_output(outputs, key, data = <<>>, data))

\* schedule_output followed by flush in DS5HidRawController (the first write
\* raises when the transport does); schedule_output alone in DS5Controller,
\* where data = <<>> stands for self._feedback_output itself.
stage(cls, outputs, key, data, motor_right, motor_left, raises, reg, hnd) ==
    IF cls = "DS5Controller"
    THEN no_flush(schedule_output(outputs, key, data = <<>>, data))
    ELSE flush(cls, schedule_output(outputs, key, FALSE, data), motor_right, motor_left,
               IF raises THEN 1 ELSE 0, reg, hnd)

(***************************************************************************)
(* feedback(data) with data.data = (position, amplitude, period, count).   *)
(* USB stages self._feedback_output itself; Bluetooth stages a checksummed *)
(* copy and flushes it at once, so a failing write raises before the       *)
(* earlier task is cancelled.  self.mapper = None raises at                *)
(* self.mapper.schedule, after the cancel.                                 *)
(***************************************************************************)
Feedback(position, amplitude, period, count, fails) ==
    /\ kind \in DS5Feedback
    /\ phase = "live"
    /\ Cardinality(tasks) < MaxPending
    /\ kind = "DS5Controller" => ~fails
    /\ LET bt       == kind = "DS5HidRawController"
           m        == set_motors(position, amplitude, self.motor_right, self.motor_left)
           out      == stage(kind, self.outputs, "feedback",
                             IF bt THEN FeedbackFrames[m.motor_right][m.motor_left] ELSE <<>>,
                             m.motor_right, m.motor_left,
                             transport_raises(handle, devRemoved, fails), registered, handle)
           duration == feedback_duration(period, count, floor_of(kind))
           kept     == cancel_previous(tasks, self.task)
           tid      == new_task(kept, self.task)
           moved    == [self EXCEPT !.motor_right = m.motor_right,
                                    !.motor_left = m.motor_left,
                                    !.outputs = out.outputs]
           cancels  == IF self.task # 0
                       THEN <<Call("cancel", <<self.task, kept # tasks>>, registered, handle)>>
                       ELSE <<>>
       IN IF out.raised
          THEN /\ self' = moved
               /\ tasks' = tasks
               /\ io' = out.io
               /\ ret' = [handler |-> "feedback", args |-> <<period, count, position, amplitude>>,
                          outcome |-> "raised"]
          ELSE IF ~mapper
          THEN /\ self' = moved
               /\ tasks' = kept
               /\ io' = out.io \o cancels \o <<Raise(registered, handle)>>
               /\ ret' = [handler |-> "feedback", args |-> <<period, count, position, amplitude>>,
                          outcome |-> "raised"]
          ELSE /\ self' = [moved EXCEPT !.task = tid]
               /\ tasks' = schedule(kept, tid, duration)
               /\ io' = out.io \o cancels
                          \o <<Call("schedule", <<tid, duration>>, registered, handle)>>
               /\ ret' = [handler |-> "feedback", args |-> <<period, count, position, amplitude>>,
                          outcome |-> "returned"]
    /\ stops' = 0
    /\ UNCHANGED <<kind, hasPoller, phase, registered, handle, removeCb, devRemoved,
                   mapper, idVars, crcVars, auxVars>>

\* Mutant: clear_feedback zeroes the right motor only.
stopped_motors_right_only(motor_right, motor_left) ==
    [motor_right |-> 0, motor_left |-> motor_left]

\* self._feedback_output.motor_right = self._feedback_output.motor_left = 0
stopped_motors(motor_right, motor_left) ==
    [motor_right |-> 0, motor_left |-> 0]

\* The scheduler runs a pending task: clear_feedback zeroes both motor
\* fields and stages (Bluetooth: writes) the report.
ClearFeedback(tid, fails) ==
    /\ \E t \in tasks : t.tid = tid
    /\ kind = "DS5Controller" => ~fails
    /\ tasks' = cancel(tasks, tid)
    /\ LET bt  == kind = "DS5HidRawController"
           m   == stopped_motors(self.motor_right, self.motor_left)
           out == stage(kind, self.outputs, "feedback",
                        IF bt THEN FeedbackFrames[m.motor_right][m.motor_left] ELSE <<>>,
                        m.motor_right, m.motor_left,
                        transport_raises(handle, devRemoved, fails), registered, handle)
       IN /\ self' = [self EXCEPT !.motor_right = m.motor_right,
                                  !.motor_left = m.motor_left,
                                  !.outputs = out.outputs]
          /\ io' = out.io
          /\ ret' = [handler |-> "clear_feedback", args |-> <<tid>>,
                     outcome |-> IF out.raised THEN "raised" ELSE "returned"]
    /\ stops' = stops + 1
    /\ UNCHANGED <<kind, hasPoller, phase, registered, handle, removeCb, devRemoved,
                   mapper, idVars, crcVars, auxVars>>

(***************************************************************************)
(* configure(icon, led_level): USB stages a fresh structure under          *)
(* 'lightbar'; Bluetooth checksums a copy, stages and flushes it.          *)
(***************************************************************************)
Configure(icon, led_level, fails) ==
    /\ kind \in DS5Feedback
    /\ phase = "live"
    /\ kind = "DS5Controller" => ~fails
    /\ configure_raises(icon) => ~fails
    /\ LET bt  == kind = "DS5HidRawController"
           out == stage(kind, self.outputs, "lightbar",
                        IF bt THEN ConfigureFrames[icon][led_level]
                        ELSE DualSenseHIDOutput(configure_output_usb(icon, led_level)),
                        self.motor_right, self.motor_left,
                        transport_raises(handle, devRemoved, fails), registered, handle)
       IN IF configure_raises(icon)
          THEN /\ io' = <<Raise(registered, handle)>>
               /\ self' = self
               /\ ret' = [handler |-> "configure", args |-> <<icon, led_level>>,
                          outcome |-> "raised"]
          ELSE /\ io' = out.io
               /\ self' = [self EXCEPT !.outputs = out.outputs]
               /\ ret' = [handler |-> "configure", args |-> <<icon, led_level>>,
                          outcome |-> IF out.raised THEN "raised" ELSE "returned"]
    /\ UNCHANGED <<kind, hasPoller, phase, registered, handle, removeCb, devRemoved,
                   mapper, tasks, stops, idVars, crcVars, auxVars>>

\* DS5Controller.flush, called by the host on each output cycle; the
\* failAt-th interruptWrite raises (0: none).
Flush(failAt) ==
    /\ kind = "DS5Controller"
    /\ phase = "live"
    /\ failAt \in 0..Len(self.outputs)
    /\ LET out == flush(kind, self.outputs, self.motor_right, self.motor_left, failAt,
                        registered, handle)
       IN /\ io' = out.io
          /\ self' = [self EXCEPT !.outputs = out.outputs]
          /\ ret' = [handler |-> "flush", args |-> <<>>,
                     outcome |-> IF out.raised THEN "raised" ELSE "returned"]
    /\ UNCHANGED <<kind, hasPoller, phase, registered, handle, removeCb, devRemoved,
                   mapper, tasks, stops, idVars, crcVars, auxVars>>

(***************************************************************************)
(* _input: the poll loop calls it while the descriptor is registered.      *)
(* The read is not guarded: an OSError leaves the callback.                *)
(***************************************************************************)
Input(data, fails) ==
    /\ kind \in BtClasses
    /\ registered
    /\ data \in InputFrames
    /\ LET read    == <<Call("read", <<>>, registered, handle)>>
           raised  == transport_raises(handle, devRemoved, fails)
           accepts == input_accepts(kind, data)
           payload == ds4_payload(data)
           state   == _convert_input_data(data)
           out     == flush(kind, self.outputs, self.motor_right, self.motor_left,
                            IF self.outputs # <<>> /\ raised THEN 1 ELSE 0, registered, handle)
       IN IF raised \/ ~accepts
          THEN /\ io' = IF raised THEN read \o <<Raise(registered, handle)>> ELSE read
               /\ self' = self
               /\ ret' = [handler |-> "_input", args |-> IF raised THEN <<>> ELSE <<data>>,
                          outcome |-> IF raised THEN "raised" ELSE "returned"]
          ELSE IF kind = "DS4HIDRawController"
          THEN /\ io' = read \o <<Call("decode", payload, registered, handle)>>
                        \o (IF decode_changed(self.old_state, payload) /\ mapper
                            THEN <<Call("mapper.input", <<self.old_state, payload>>,
                                        registered, handle)>>
                            ELSE <<>>)
               /\ self' = [self EXCEPT !.old_state = payload]
               /\ ret' = [handler |-> "_input", args |-> <<data>>, outcome |-> "returned"]
          ELSE /\ io' = read
                        \o (IF mapper
                            THEN <<Call("mapper.input", <<self.old_state, state>>,
                                        registered, handle)>>
                            ELSE <<>>)
                        \o out.io
               /\ self' = [self EXCEPT !.old_state = state, !.outputs = out.outputs]
               /\ ret' = [handler |-> "_input", args |-> <<data>>,
                          outcome |-> IF out.raised THEN "raised" ELSE "returned"]
    /\ UNCHANGED <<kind, hasPoller, phase, registered, handle, removeCb, devRemoved,
                   mapper, tasks, stops, idVars, crcVars, auxVars>>

\* close(), called by the host or by the device monitor.
Close ==
    /\ kind \in BtClasses
    /\ phase \in {"live", "closed"}
    /\ LET st == close(hasPoller, self.id, registered, controllers, handle)
       IN /\ registered' = st.reg
          /\ controllers' = st.ctls
          /\ handle' = st.hnd
          /\ io' = st.io
    /\ phase' = "closed"
    /\ removedEver' = TRUE
    /\ ret' = [handler |-> "close", args |-> <<>>, outcome |-> "returned"]
    /\ UNCHANGED <<kind, hasPoller, removeCb, devRemoved, mapper, self, tasks, stops,
                   lastGen, crcVars, auxVars>>

\* The transport reports the removal of the device: the device monitor
\* calls the removal callback registered for its syspath, if there is one.
DeviceRemoved ==
    /\ kind \in BtClasses
    /\ phase \in {"live", "closed"}
    /\ ~devRemoved
    /\ devRemoved' = TRUE
    /\ LET st == close(hasPoller, self.id, registered, controllers, handle)
       IN IF removeCb
          THEN /\ registered' = st.reg
               /\ controllers' = st.ctls
               /\ handle' = st.hnd
               /\ io' = st.io
               /\ phase' = "closed"
               /\ removedEver' = TRUE
               /\ ret' = [handler |-> "close", args |-> <<>>, outcome |-> "returned"]
          ELSE /\ io' = <<>>
               /\ ret' = [handler |-> "device_removed", args |-> <<>>, outcome |-> "returned"]
               /\ UNCHANGED <<registered, controllers, handle, phase, removedEver>>
    /\ UNCHANGED <<kind, hasPoller, removeCb, mapper, self, tasks, stops, lastGen, crcVars, auxVars>>

Next ==
    \/ \E failAt \in RaisingCalls \cup {"get_hidraw", "none"} : MakeBtHidrawCallback(failAt)
    \/ HidCallback
    \/ \E m \in BOOLEAN : SetMapper(m)
    \/ \E position \in HapticPos, amplitude \in Amplitudes, pulse \in Pulses, fails \in BOOLEAN :
          Feedback(position, amplitude, pulse[1], pulse[2], fails)
    \/ \E tid \in 1..(MaxPending + 1), fails \in BOOLEAN : ClearFeedback(tid, fails)
    \/ \E icon \in Icons, led_level \in LedLevels, fails \in BOOLEAN :
          Configure(icon, led_level, fails)
    \/ \E failAt \in 0..2 : Flush(failAt)
    \/ \E data \in InputFrames, fails \in BOOLEAN : Input(data, fails)
    \/ Close
    \/ DeviceRemoved

Spec == InitDrv /\ [][Next]_vars

(***************************************************************************)
(* Properties of Spec.                                                     *)
(***************************************************************************)
Writes == {i \in 1..Len(io) : io[i].op = "write"}

\* C3: every frame the DS5 Bluetooth controller hands to write, in the
\* construction handshake, feedback, the auto-stop and configure, is 78 bytes
\* long with bytes 74..77 the little-endian CRC-32 of 0xA2 followed by its
\* bytes 0..73.
C3_WrittenFramesChecksummed ==
    kind = "DS5HidRawController" => \A i \in Writes : CrcFramed(io[i].data)

\* C3 witness: a feedback call wrote a frame with both motors running.
C3_Witness ==
    /\ kind = "DS5HidRawController"
    /\ ret.handler = "feedback"
    /\ Writes = {2}
    /\ io[2].data[5] > 0 /\ io[2].data[6] > 0
    /\ SubSeq(io[2].data, 75, 78) # <<0, 0, 0, 0>>

\* C5: for a DS5 controller (USB and Bluetooth) at most one auto-stop task is
\* pending, and it is the one the controller refers to; at most one stop
\* happens after the latest feedback call; the task that runs is never one a
\* later feedback call replaced.
C5_OnePendingAutoStop ==
    kind \in DS5Feedback =>
        /\ Cardinality(tasks) <= 1
        /\ \A t \in tasks : t.tid = self.task
        /\ stops <= 1
        /\ ret.handler = "clear_feedback" => ret.args[1] = self.task

\* C5 witness: a feedback call found the earlier task still pending, cancelled
\* it and scheduled its own.
C5_Witness ==
    /\ kind \in DS5Feedback
    /\ ret.handler = "feedback" /\ ret.outcome = "returned"
    /\ \E i \in 1..Len(io) : io[i].op = "cancel" /\ io[i].data[2]
    /\ \E i \in 1..Len(io) : io[i].op = "schedule" /\ io[i].data[1] = self.task
    /\ Cardinality(tasks) = 1

\* The delay of the task a feedback call scheduled, -1 if it scheduled none.
ScheduledDelay ==
    IF \E i \in 1..Len(io) : io[i].op = "schedule"
    THEN io[CHOOSE i \in 1..Len(io) : io[i].op = "schedule"].data[2]
    ELSE -1

\* C6: a feedback call with period p and count c schedules the auto-stop
\* after max(p*c/0x10000, floor) seconds, floor 0.02 on USB and 0.05 on
\* Bluetooth (delays in units of 1/6553600 s).
C6_DelayFloor ==
    (kind \in DS5Feedback /\ ret.handler = "feedback" /\ ret.outcome = "returned") =>
        LET x == ret.args[1] * ret.args[2] * 100
            f == IF kind = "DS5Controller" THEN 2 * 65536 ELSE 5 * 65536
        IN /\ ScheduledDelay >= f
           /\ x < f => ScheduledDelay = f
           /\ x >= f => ScheduledDelay = x
           /\ \E t \in tasks : t.tid = self.task /\ t.delay = ScheduledDelay

\* C6 witness: a Bluetooth feedback call whose computed duration lies between
\* the two floors was scheduled at the Bluetooth floor.
C6_Witness ==
    /\ kind = "DS5HidRawController"
    /\ ret.handler = "feedback" /\ ret.outcome = "returned"
    /\ ret.args[1] = 1024 /\ ret.args[2] = 3
    /\ ScheduledDelay = 5 * 65536

\* C7: a 78-byte frame whose first byte is not 0x11 (DS4) or 0x31 (DS5) is
\* read and dropped: no decode, no mapper dispatch, no exception; an accepted
\* DS4 frame has exactly its bytes 2.. handed to decode.
C7_ForeignFramesDropped ==
    (kind \in BtClasses /\ ret.handler = "_input" /\ ret.args # <<>>) =>
        LET data == ret.args[1]
            id   == IF kind = "DS4HIDRawController" THEN 17 ELSE 49
        IN /\ data[1] # id => ret.outcome = "returned" /\ Ops(io) = <<"read">>
           /\ (kind = "DS4HIDRawController" /\ data[1] = 17) =>
                 /\ Len(io) >= 2
                 /\ io[2].op = "decode"
                 /\ io[2].data = [i \in 1..76 |-> data[i + 2]]

\* C7 witness: the DS4 controller, with a mapper attached and a report
\* decoded earlier, was fed a frame that starts with the DS5 report ID.
C7_Witness ==
    /\ kind = "DS4HIDRawController"
    /\ ret.handler = "_input" /\ ret.args # <<>>
    /\ ret.args[1][1] = 49
    /\ mapper
    /\ self.old_state # <<>>

\* C8: close calls unregister (when there is a poller), remove_controller and
\* the handle's close in this order; whenever a call is made, and in every
\* state, a registered descriptor belongs to an open handle, and _input
\* reads from an open handle.
C8_UnregisterBeforeRelease ==
    kind \in BtClasses =>
        /\ registered => handle = "open"
        /\ \A i \in 1..Len(io) : io[i].reg => io[i].hnd = "open"
        /\ ret.handler = "close" =>
              Ops(io) = (IF hasPoller THEN <<"unregister">> ELSE <<>>)
                        \o <<"remove_controller", "close">>
        /\ ret.handler = "_input" => io[1].op = "read" /\ io[1].hnd = "open"

\* C8 witness: a registered controller was closed.
C8_Witness ==
    /\ kind \in BtClasses
    /\ ret.handler = "close"
    /\ Len(io) = 3
    /\ io[1].op = "unregister" /\ io[1].reg /\ io[1].hnd = "open"
    /\ ~registered
    /\ handle = "closed"

\* C9 (as stated): once the transport has reported the removal of the device
\* of a constructed, registered Bluetooth controller, the controller is out of
\* the poll loop and of the daemon's list and its handle is closed.
C9_RemovedDeviceReleased ==
    (kind \in BtClasses /\ devRemoved /\ self.id # "") =>
        /\ ~registered
        /\ self.id \notin get_active_ids(controllers)
        /\ handle = "closed"

\* C9, the part the code keeps: the DS5 controller, whose constructor
\* registers close as removal callback.
C9_DS5RemovedDeviceReleased ==
    (kind = "DS5HidRawController" /\ devRemoved /\ self.id # "") =>
        /\ ~registered
        /\ self.id \notin get_active_ids(controllers)
        /\ handle = "closed"

\* C10 (as stated): _input never ends with an exception.
C10_InputReturns ==
    (kind \in BtClasses /\ ret.handler = "_input") => ret.outcome = "returned"

(***************************************************************************)
(* C11: the pending-outputs map and flush.                                 *)
(***************************************************************************)
DistinctKeys(outputs) ==
    \A i, j \in 1..Len(outputs) : i # j => outputs[i].key # outputs[j].key

\* The positions in io where a flush starts.
FlushEntries == {i \in 1..Len(io) : io[i].op = "flush"}

\* The number of frames handed to the transport right after io[i].
WritesAfter(i) ==
    LET run == {k \in 0..(Len(io) - i) :
                   \A j \in 1..k : io[i + j].op \in {"write", "interruptWrite"}}
    IN CHOOSE k \in run : \A m \in run : m <= k

\* The flush that starts at io[i] ended with an exception.
FlushRaised(i) ==
    LET k == WritesAfter(i)
    IN i + k + 1 <= Len(io) /\ io[i + k + 1].op = "raise"

\* The j-th frame after io[i] is the record that was pending last-but-(j-1).
WroteItem(i, j) ==
    LET pend == io[i].data
        item == pend[Len(pend) + 1 - j]
        data == io[i + j].data
    IN IF kind = "DS5Controller"
       THEN /\ Len(data) = 64
            /\ SubSeq(data, 1, 48) = output_bytes(item, self.motor_right, self.motor_left)
            /\ \A b \in 49..64 : data[b] = 0
       ELSE data = item.data

Dispatched == {i \in 1..Len(io) : io[i].op = "mapper.input"}

\* C12: with a mapper attached, _input of the DS5 Bluetooth controller pushes
\* the (old, new) pair only when the decoded state differs from the previous
\* one: no frame that decodes to the previous state is dispatched.
C12_DispatchOnlyOnChange ==
    (kind = "DS5HidRawController" /\ ret.handler = "_input" /\ mapper) =>
        \A i \in Dispatched : io[i].data[1] # io[i].data[2]

(***************************************************************************)
(* C13: make_bt_hidraw_callback and exceptions.                            *)
(***************************************************************************)
\* C13: make_bt_hidraw_callback never raises; when get_hidraw resolves no
\* node, or the open or any call of the constructor raises, it returns and
\* no controller has been produced.
C13_CallbackNeverRaises ==
    ret.handler = "make_bt_hidraw_callback" =>
        /\ ret.outcome = "returned"
        /\ ret.args[1] # "none" => phase # "live" /\ self = NoSelf

\* C13 witness: the last device call of the DS5 constructor raised, the
\* exception was caught and the callback returned without a controller.
C13_Witness ==
    /\ kind = "DS5HidRawController"
    /\ ret = [handler |-> "make_bt_hidraw_callback", args |-> <<"getPhysicalAddress">>,
              outcome |-> "returned"]
    /\ io[Len(io)].op = "raise"
    /\ phase = "failed"

(***************************************************************************)
(* init(daemon, config) of ds4drv and ds5drv, and the device events that   *)
(* run the callbacks it registers.                                         *)
(***************************************************************************)
DS4_PRODUCT_ID == 2508

DS4_V1_PRODUCT_ID == 1476

DS5_PRODUCT_ID == 3302

\* The product IDs init names: ds4drv registers v.2 and v.1, ds5drv one.
product_ids(fam) ==
    IF fam = "ds4" THEN {DS4_PRODUCT_ID, DS4_V1_PRODUCT_ID} ELSE {DS5_PRODUCT_ID}

\* Python truth of config["drivers"].get(name).
truthy(v) == v = "True"

\* __init__ of DS4HIDRawDriver / DS5HidRawDriver: one device-monitor callback
\* per product ID.
HIDRawDriver(fam) ==
    {[bus |-> "bluetooth", pid |-> p, cb |-> "make_bt_hidraw_callback"] :
        p \in product_ids(fam)}

\* Mutant: evdevdrv counts whether or not evdev could be imported.
init_evdev_unchecked(fam, drv, have_evdev) ==
    LET hid == truthy(drv.hiddrv)
        ev  == truthy(drv.evdevdrv)
    IN IF hid \/ ev
       THEN [ret |-> "True",
             hotplug |-> {[pid |-> p, cb |-> "hid_callback", on_failure |-> "fail_cb"] :
                             p \in product_ids(fam)},
             monitor |-> IF hid THEN HIDRawDriver(fam)
                         ELSE {[bus |-> "bluetooth", pid |-> p, cb |-> "make_evdev_device"] :
                                  p \in product_ids(fam)}]
       ELSE [ret |-> "False", hotplug |-> {}, monitor |-> {}]

\* init: what it returns and what it has registered.
init(fam, drv, have_evdev) ==
    LET hid == truthy(drv.hiddrv)
        ev  == have_evdev /\ truthy(drv.evdevdrv)
    IN IF hid \/ ev
       THEN [ret |-> "True",
             hotplug |-> {[pid |-> p, cb |-> "hid_callback", on_failure |-> "fail_cb"] :
                             p \in product_ids(fam)},
             monitor |-> IF hid THEN HIDRawDriver(fam)
                         ELSE IF ev
                         THEN {[bus |-> "bluetooth", pid |-> p, cb |-> "make_evdev_device"] :
                                  p \in product_ids(fam)}
                         ELSE {}]
       ELSE [ret |-> "False", hotplug |-> {}, monitor |-> {}]

\* fail_cb: falls back to make_evdev_device if evdev is there, else logs.
fail_cb(have_evdev) ==
    <<"fail_cb">> \o (IF have_evdev THEN <<"make_evdev_device">> ELSE <<>>)

ConfigValues == {"True", "False", "None"}

InitInit ==
    /\ family \in {"ds4", "ds5"}
    /\ drivers \in [hiddrv : ConfigValues, evdevdrv : ConfigValues]
    /\ HAVE_EVDEV \in BOOLEAN
    /\ hotplug = {}
    /\ monitor = {}
    /\ initRet = "pending"
    /\ event = NoEvent
    /\ IdleIds
    /\ IdleCrc
    /\ IdleDrv
    /\ IdleFn

\* The daemon loads the driver module and calls init once.
CallInit ==
    /\ initRet = "pending"
    /\ LET r == init(family, drivers, HAVE_EVDEV)
       IN /\ initRet' = r.ret
          /\ hotplug' = r.hotplug
          /\ monitor' = r.monitor
    /\ UNCHANGED <<family, drivers, HAVE_EVDEV, event, idVars, crcVars, drvVars, fnVars>>

\* A USB device of the vendor appears: the registration for its product ID
\* runs its callback, or its failure callback if the device cannot be claimed.
UsbHotplug(pid, fails) ==
    /\ initRet # "pending"
    /\ event' = [bus |-> "usb", pid |-> pid,
                 ran |-> IF \E r \in hotplug : r.pid = pid
                         THEN LET r == CHOOSE r \in hotplug : r.pid = pid
                              IN IF fails THEN fail_cb(HAVE_EVDEV) ELSE <<r.cb>>
                         ELSE <<>>]
    /\ UNCHANGED <<family, drivers, HAVE_EVDEV, hotplug, monitor, initRet,
                   idVars, crcVars, drvVars, fnVars>>

\* A Bluetooth device of the vendor appears: the device monitor runs the
\* callback added for its product ID.
BtHotplug(pid) ==
    /\ initRet # "pending"
    /\ event' = [bus |-> "bluetooth", pid |-> pid,
                 ran |-> IF \E m \in monitor : m.pid = pid
                         THEN <<(CHOOSE m \in monitor : m.pid = pid).cb>>
                         ELSE <<>>]
    /\ UNCHANGED <<family, drivers, HAVE_EVDEV, hotplug, monitor, initRet,
                   idVars, crcVars, drvVars, fnVars>>

AllProductIds == {DS4_PRODUCT_ID, DS4_V1_PRODUCT_ID, DS5_PRODUCT_ID}

NextInit ==
    \/ CallInit
    \/ \E pid \in AllProductIds, fails \in BOOLEAN : UsbHotplug(pid, fails)
    \/ \E pid \in AllProductIds : BtHotplug(pid)

SpecInit == InitInit /\ [][NextInit]_vars

\* C14: init returns true exactly when hiddrv is enabled, or evdev is
\* available and evdevdrv is enabled.  Then hid_callback is registered for
\* USB hotplug of every product ID of the family, and one Bluetooth path for
\* every product ID: make_bt_hidraw_callback if hiddrv is enabled, else
\* make_evdev_device.  When it returns false nothing is registered.
C14_InitRegisters ==
    initRet # "pending" =>
        LET hid == drivers.hiddrv = "True"
            ev  == HAVE_EVDEV /\ drivers.evdevdrv = "True"
            ids == IF family = "ds4" THEN {2508, 1476} ELSE {3302}
        IN /\ initRet = "True" <=> (hid \/ ev)
           /\ initRet = "True" =>
                 /\ {r.pid : r \in hotplug} = ids
                 /\ \A r \in hotplug : r.cb = "hid_callback"
                 /\ {m.pid : m \in monitor} = ids
                 /\ \A m \in monitor : m.bus = "bluetooth"
                 /\ {m.cb : m \in monitor} =
                       {IF hid THEN "make_bt_hidraw_callback" ELSE "make_evdev_device"}
                 /\ Cardinality(hotplug) = Cardinality(ids)
                 /\ Cardinality(monitor) = Cardinality(ids)
           /\ initRet = "False" => hotplug = {} /\ monitor = {}
           /\ initRet \in {"True", "False"}

\* C14 witness: ds4drv with hiddrv off and evdevdrv on, evdev there: init
\* returned true and a Bluetooth DS4 v.1 ran make_evdev_device.
C14_Witness ==
    /\ family = "ds4"
    /\ drivers = [hiddrv |-> "False", evdevdrv |-> "True"]
    /\ HAVE_EVDEV
    /\ initRet = "True"
    /\ event = [bus |-> "bluetooth", pid |-> 1476, ran |-> <<"make_evdev_device">>]

(***************************************************************************)
(* init.make_evdev_device: the roles of the evdev nodes of one controller. *)
(***************************************************************************)
MaxNodes == 3

\* The text before the first "/" of s: s.split("/")[0].
split0(s) ==
    LET cut == {i \in 1..Len(s) : s[i] = "/"}
    IN IF cut = {} THEN s
       ELSE SubSeq(s, 1, (CHOOSE i \in cut : \A j \in cut : i <= j) - 1)

\* s.startswith(p).
startswith(s, p) == Len(p) <= Len(s) /\ SubSeq(s, 1, Len(p)) = p

\* The last index in S, 0 (None) if there is none: what a loop that assigns
\* on every match leaves behind.
last_of(S) == IF S = {} THEN 0 ELSE CHOOSE i \in S : \A j \in S : j <= i

\* 1st loop: the controller is the last node with 8 axes.
controller_of(devices) ==
    last_of({i \in 1..Len(devices) : devices[i].count = 8})

\* Mutant: every 6-axis node is taken as the gyro sensor.
role_ignoring_mt(d) ==
    IF d.count = 6 THEN "gyro" ELSE IF d.count = 4 THEN "touchpad" ELSE ""

\* 2nd loop, per node: 6 axes with ABS_MT_POSITION_X or 4 axes: touchpad;
\* 6 axes without: gyro.
role(d) ==
    IF d.count = 6 THEN (IF d.mt THEN "touchpad" ELSE "gyro")
    ELSE IF d.count = 4 THEN "touchpad" ELSE ""

NoDevice == [made |-> FALSE, controller |-> 0, gyro |-> 0, touchpad |-> 0]

\* make_evdev_device on the enumerated nodes; roles are positions in the
\* enumeration.  phys is read from the loop variable the first loop left
\* behind: the last enumerated node.
make_evdev_device(devices) ==
    LET controllerdevice == controller_of(devices)
    IN IF controllerdevice = 0 THEN NoDevice
       ELSE LET phys    == split0(devices[Len(devices)].phys)
                near    == {i \in 1..Len(devices) : startswith(devices[i].phys, phys)}
                gyro     == last_of({i \in near : role(devices[i]) = "gyro"})
                touchpad == last_of({i \in near : role(devices[i]) = "touchpad"})
            IN IF gyro # 0 /\ touchpad # 0
               THEN [made |-> TRUE, controller |-> controllerdevice,
                     gyro |-> gyro, touchpad |-> touchpad]
               ELSE NoDevice

\* The nodes get_evdev_devices_from_syspath may list: the number of axes,
\* whether ABS_MT_POSITION_X is among them, and the physical address.
PhysAddresses == {<<"a", "/", "0">>, <<"a", "/", "1">>, <<"b", "/", "0">>}

AxisCounts == {8, 6, 4, 2}

EvdevNodes ==
    {d \in [count : AxisCounts, mt : BOOLEAN, phys : PhysAddresses] : d.mt => d.count = 6}

RECURSIVE SeqsUpTo(_, _)
SeqsUpTo(S, n) ==
    IF n = 0 THEN {<<>>}
    ELSE LET shorter == SeqsUpTo(S, n - 1)
         IN shorter \cup {Append(s, x) : s \in shorter, x \in S}

EvdevInputs == {[fn |-> "make_evdev_device", devices |-> ds] : ds \in SeqsUpTo(EvdevNodes, MaxNodes)}

CallMakeEvdevDevice ==
    /\ fnIn.fn = "make_evdev_device"
    /\ fnOut.fn = ""
    /\ fnOut' = [fn |-> "make_evdev_device", value |-> make_evdev_device(fnIn.devices)]
    /\ UNCHANGED <<fnIn, idVars, crcVars, drvVars, initVars>>

\* C15: make_evdev_device takes an 8-axis node as controller, a 6-axis node
\* with ABS_MT_POSITION_X (or a 4-axis node) as touchpad and a 6-axis node
\* without it as gyro; when the nodes share one physical-address prefix it
\* builds the composite controller in every enumeration order exactly when
\* all three roles can be filled, and never when a role stays unresolved.
C15_EvdevRoles ==
    fnOut.fn = "make_evdev_device" =>
        LET ds     == fnIn.devices
            r      == fnOut.value
            shared == \A i, j \in 1..Len(ds) : split0(ds[i].phys) = split0(ds[j].phys)
            Ctl    == {i \in 1..Len(ds) : ds[i].count = 8}
            Tp     == {i \in 1..Len(ds) : (ds[i].count = 6 /\ ds[i].mt) \/ ds[i].count = 4}
            Gy     == {i \in 1..Len(ds) : ds[i].count = 6 /\ ~ds[i].mt}
        IN /\ r.made => r.controller \in Ctl /\ r.touchpad \in Tp /\ r.gyro \in Gy
           /\ shared => (r.made <=> (Ctl # {} /\ Tp # {} /\ Gy # {}))
           /\ (Ctl = {} \/ Tp = {} \/ Gy = {}) => ~r.made

\* C15 witness: gyro, touchpad and controller node of one address, listed in
\* that order, were given their roles.
C15_Witness ==
    /\ fnIn.fn = "make_evdev_device"
    /\ fnIn.devices = << [count |-> 6, mt |-> FALSE, phys |-> <<"a", "/", "0">>],
                         [count |-> 6, mt |-> TRUE, phys |-> <<"a", "/", "1">>],
                         [count |-> 8, mt |-> FALSE, phys |-> <<"a", "/", "0">>] >>
    /\ fnOut = [fn |-> "make_evdev_device",
                value |-> [made |-> TRUE, controller |-> 3, gyro |-> 1, touchpad |-> 2]]

StickInputs ==
    {[fn |-> "_stick_axis_scale", value |-> v, invert |-> i] : v \in 0..255, i \in BOOLEAN}

CallStickAxisScale ==
    /\ fnIn.fn = "_stick_axis_scale"
    /\ fnOut.fn = ""
    /\ fnOut' = [fn |-> "_stick_axis_scale", value |-> _stick_axis_scale(fnIn.value, fnIn.invert)]
    /\ UNCHANGED <<fnIn, idVars, crcVars, drvVars, initVars>>

\* C16: _stick_axis_scale(128, False) is the centre of
\* [STICK_PAD_MIN, STICK_PAD_MIN + STICK_PAD_RES] truncated toward zero,
\* (0, False) gives STICK_PAD_MIN, (255, False) gives
\* STICK_PAD_MIN + STICK_PAD_RES; every byte with either invert stays inside
\* the range and is the scaled value with its fraction cut off toward zero.
C16_StickAxisScale ==
    fnOut.fn = "_stick_axis_scale" =>
        LET v   == fnIn.value
            r   == fnOut.value
            lo  == -32768
            hi  == -32768 + 65535
            \* twice the centre of the range, and the scaled value as a fraction
            c2  == lo + hi
            den == 2 * (IF v >= 128 THEN 127 ELSE 128)
            num == ((IF fnIn.invert THEN 128 - v ELSE v - 128) + den \div 2) * 65535 + den * lo
            abs(x) == IF x < 0 THEN -x ELSE x
        IN /\ (v = 128 /\ ~fnIn.invert) => r = (IF c2 >= 0 THEN c2 \div 2 ELSE -((-c2) \div 2)) /\ r = 0
           /\ (v = 0 /\ ~fnIn.invert) => r = lo
           /\ (v = 255 /\ ~fnIn.invert) => r = hi
           /\ lo <= r /\ r <= hi
           /\ abs(r) * den <= abs(num) /\ abs(num) < (abs(r) + 1) * den
           /\ r # 0 => (r > 0 <=> num > 0)

\* C16 witness: the centre byte, not inverted, was scaled to 0; the centre
\* of the range is -1/2.
C16_Witness ==
    /\ fnIn = [fn |-> "_stick_axis_scale", value |-> 128, invert |-> FALSE]
    /\ fnOut = [fn |-> "_stick_axis_scale", value |-> 0]
    /\ STICK_PAD_MIN + (STICK_PAD_MIN + STICK_PAD_RES) = -1

(***************************************************************************)
(* The buttons and the D-pad in DS5HidRawController._convert_input_data.   *)
(***************************************************************************)
\* A report whose bytes data[9], data[10] and data[11] are given.
ButtonFrame(b9, b10, b11) ==
    [i \in 1..BT_FRAME_SIZE |->
        CASE i = 1 -> DS5_INPUT_REPORT
          [] i = 10 -> b9
          [] i = 11 -> b10
          [] i = 12 -> b11
          [] OTHER -> 0]

\* A frame with the three button bytes and every other byte but the first
\* set to fill.
FilledFrame(b9, b10, b11, fill) ==
    [i \in 1..BT_FRAME_SIZE |->
        CASE i = 1 -> DS5_INPUT_REPORT
          [] i = 10 -> b9
          [] i = 11 -> b10
          [] i = 12 -> b11
          [] OTHER -> fill]

SingleBits == {0, 1, 2, 4, 8, 16, 32, 64, 128, 255}

DecodeInputs ==
    {[fn |-> "_convert_input_data", data |-> ButtonFrame(b9, b10, b11)] :
        b9 \in 0..255, b10 \in {0, 129}, b11 \in {0, 3}}
    \cup {[fn |-> "_convert_input_data", data |-> FilledFrame(b9, b10, b11, fill)] :
             b9 \in SingleBits, b10 \in SingleBits, b11 \in {0, 1, 2, 3, 252, 255},
             fill \in {0, 255}}

CallConvertInputData ==
    /\ fnIn.fn = "_convert_input_data"
    /\ fnOut.fn = ""
    /\ fnOut' = [fn |-> "_convert_input_data", value |-> _convert_input_data(fnIn.data)]
    /\ UNCHANGED <<fnIn, idVars, crcVars, drvVars, initVars>>

\* C17: for every low nibble v of byte 9 the decode yields the table's pair
\* for v in 0..8 and (0, 0) for any other v, and sets the left-pad and
\* left-pad-touch flags exactly for the non-centred states: never together
\* with the pair (0, 0).
C17_DpadDecode ==
    fnOut.fn = "_convert_input_data" =>
        LET v    == fnIn.data[10] % 16
            st   == fnOut.value
            pair == <<st.lpad_x, st.lpad_y>>
            MAX  == 32767
            MIN  == -32768
            table == << <<MAX, MAX>>, <<MAX, 0>>, <<MAX, MIN>>, <<0, MIN>>,
                        <<MIN, MIN>>, <<MIN, 0>>, <<MIN, MAX>>, <<0, 0>> >>
        IN /\ v = 0 => pair = <<0, MAX>>
           /\ v \in 1..8 => pair = table[v]
           /\ v \notin 0..8 => pair = <<0, 0>>
           /\ "LPAD" \in st.buttons <=> "LPADTOUCH" \in st.buttons
           /\ "LPAD" \in st.buttons <=> pair # <<0, 0>>

(***************************************************************************)
(* The button map built by _load_hid_descriptor (DS4Controller and         *)
(* DS5Controller), and the host decoder's use of it.                       *)
(***************************************************************************)
\* The host's size of button_map (scc.drivers.hiddrv).
BUTTON_COUNT == 64

\* BUTTON_MAP, the same tuple in both classes; "1<<64" is the unused slot.
BUTTON_MAP ==
    <<"X", "A", "B", "Y", "LB", "RB", "1<<64", "1<<64",
      "BACK", "START", "STICKPRESS", "RPAD", "C", "CPADPRESS">>

\* The host's SCButtons: the bit each button is (scc.constants).
SCButtons ==
    [RPADTOUCH |-> 28, LPADTOUCH |-> 27, RPAD |-> 26, LPAD |-> 25, RGRIP |-> 24,
     LGRIP |-> 23, START |-> 22, C |-> 21, BACK |-> 20, A |-> 15, X |-> 14, B |-> 13,
     Y |-> 12, LB |-> 11, RB |-> 10, LT |-> 9, RT |-> 8, CPADTOUCH |-> 2,
     CPADPRESS |-> 1, STICKPRESS |-> 30]

\* The host's button_to_bit: the position of the one bit set in sc.
button_to_bit(sc) == IF sc = "1<<64" THEN 64 ELSE SCButtons[sc]

\* Mutant: the map is not filled with 64 first; untouched entries are 0.
load_button_map_unfilled(test_mode) ==
    [x \in 0..(BUTTON_COUNT - 1) |->
        IF test_mode THEN x
        ELSE IF x < Len(BUTTON_MAP) THEN button_to_bit(BUTTON_MAP[x + 1]) ELSE 0]

\* _load_hid_descriptor, the button map: in test mode button_map[x] = x;
\* else every entry is set to 64 and then entry x of BUTTON_MAP to its bit.
_load_hid_descriptor(test_mode) ==
    [x \in 0..(BUTTON_COUNT - 1) |->
        IF test_mode THEN x
        ELSE IF x < Len(BUTTON_MAP) THEN button_to_bit(BUTTON_MAP[x + 1]) ELSE 64]

\* The host decoder: every raw bit set whose entry is below 64 sets the
\* logical bit of its entry.
decode_buttons(button_map, raw) ==
    {button_map[x] : x \in {x \in raw : button_map[x] < 64}}

ButtonInputs ==
    {[fn |-> "_load_hid_descriptor", cls |-> c, test_mode |-> t, raw |-> {x}] :
        c \in {"DS4Controller", "DS5Controller"}, t \in BOOLEAN, x \in 0..(BUTTON_COUNT - 1)}

\* _load_hid_descriptor, then a report with the raw bits fnIn.raw decoded.
CallLoadHidDescriptor ==
    /\ fnIn.fn = "_load_hid_descriptor"
    /\ fnOut.fn = ""
    /\ LET button_map == _load_hid_descriptor(fnIn.test_mode)
       IN fnOut' = [fn |-> "_load_hid_descriptor", button_map |-> button_map,
                    buttons |-> decode_buttons(button_map, fnIn.raw)]
    /\ UNCHANGED <<fnIn, idVars, crcVars, drvVars, initVars>>

\* C18: in normal mode raw bits 0..5 and 8..13 are sent to the buttons X, A,
\* B, Y, LB, RB, BACK, START, STICKPRESS, RPAD, C, CPADPRESS, no two to the
\* same one; raw bits 6, 7 and 14..63 to the sentinel 64; a report with one
\* mapped raw bit set decodes to that one button and a sentinel-mapped bit
\* to none.  In test mode every raw bit maps to its own index.
C18_ButtonMap ==
    fnOut.fn = "_load_hid_descriptor" =>
        LET m      == fnOut.button_map
            mapped == (0..5) \cup (8..13)
            names  == [x \in mapped |->
                          <<"X", "A", "B", "Y", "LB", "RB", "", "",
                            "BACK", "START", "STICKPRESS", "RPAD", "C", "CPADPRESS">>[x + 1]]
        IN /\ DOMAIN m = 0..63
           /\ fnIn.test_mode => \A x \in 0..63 : m[x] = x
           /\ ~fnIn.test_mode =>
                 /\ \A x \in mapped : m[x] = SCButtons[names[x]] /\ m[x] < 64
                 /\ \A x, y \in mapped : x # y => m[x] # m[y]
                 /\ \A x \in {6, 7} \cup (14..63) : m[x] = 64
                 /\ \A x \in fnIn.raw :
                       fnOut.buttons = IF x \in mapped THEN {SCButtons[names[x]]} ELSE {}

\* C18 witness: DS5Controller in normal mode, raw bit 10 alone set: the
\* report decoded to STICKPRESS only.
C18_Witness ==
    /\ fnIn = [fn |-> "_load_hid_descriptor", cls |-> "DS5Controller",
               test_mode |-> FALSE, raw |-> {10}]
    /\ fnOut.fn = "_load_hid_descriptor"
    /\ fnOut.buttons = {SCButtons.STICKPRESS}
    /\ fnOut.button_map[7] = 64 /\ fnOut.button_map[63] = 64

(***************************************************************************)
(* DS5HidRawController._calculate_quaternion.  Quaternions are kept in     *)
(* exact arithmetic for half-angles that are whole quarter turns, where    *)
(* sine and cosine are 0, 1 or -1; for these arguments the floating-point  *)
(* code yields the same q1..q4.                                            *)
(***************************************************************************)
GYRO_RES_IN_DEG_SEC == 16

\* math.sin and math.cos of k quarter turns.
sin_q(k) == <<0, 1, 0, -1>>[(k % 4) + 1]

cos_q(k) == <<1, 0, -1, 0>>[(k % 4) + 1]

\* The half-angle of raw rate g over delta_time seconds, in quarter turns:
\* (g / GYRO_RES_IN_DEG_SEC * delta_time) degrees, halved, over 90.
half_angle(g, delta_time) == (g * delta_time) \div (GYRO_RES_IN_DEG_SEC * 2 * 90)

\* The Hamilton product old * q, both <<w, x, y, z>>.
hamilton(old, q) ==
    << old[1] * q[1] - old[2] * q[2] - old[3] * q[3] - old[4] * q[4],
       old[1] * q[2] + old[2] * q[1] + old[3] * q[4] - old[4] * q[3],
       old[1] * q[3] - old[2] * q[4] + old[3] * q[1] + old[4] * q[2],
       old[1] * q[4] + old[2] * q[3] - old[3] * q[2] + old[4] * q[1] >>

\* The rotation of one frame, <<qw, qx, qy, qz>>.
frame_quat(gyaw, gpitch, groll, delta_time) ==
    LET sr == sin_q(half_angle(groll, delta_time))
        cr == cos_q(half_angle(groll, delta_time))
        sp == sin_q(half_angle(gpitch, delta_time))
        cp == cos_q(half_angle(gpitch, delta_time))
        sy == sin_q(half_angle(gyaw, delta_time))
        cy == cos_q(half_angle(gyaw, delta_time))
    IN << cr * cp * cy + sr * sp * sy,
          sr * cp * cy - cr * sp * sy,
          cr * sp * cy + sr * cp * sy,
          cr * cp * sy - sr * sp * cy >>

\* Mutant: the scaled integers are kept for the next frame.
calculate_quaternion_scaled(previous_quat, gyaw, gpitch, groll, delta_time) ==
    LET Q0Q1 == hamilton(previous_quat, frame_quat(gyaw, gpitch, groll, delta_time))
    IN [q1 |-> Q0Q1[1] * 32767, q2 |-> Q0Q1[3] * 32767, q3 |-> Q0Q1[2] * 32767,
        q4 |-> Q0Q1[4] * (-32767),
        _previous_quat |-> <<Q0Q1[1] * 32767, Q0Q1[2] * 32767, Q0Q1[3] * 32767,
                             Q0Q1[4] * 32767>>]

\* _calculate_quaternion: q1..q4 of the state and the quaternion stored.
_calculate_quaternion(previous_quat, gyaw, gpitch, groll, delta_time) ==
    LET Q0Q1 == hamilton(previous_quat, frame_quat(gyaw, gpitch, groll, delta_time))
    IN [q1 |-> Q0Q1[1] * 32767, q2 |-> Q0Q1[3] * 32767, q3 |-> Q0Q1[2] * 32767,
        q4 |-> Q0Q1[4] * (-32767),
        _previous_quat |-> Q0Q1]

\* Raw rates of 0 and of half a turn per second either way.
GyroRates == {0, 2880, -2880}

MaxDelta == 3

QuatInputs ==
    {[fn |-> "_calculate_quaternion", _previous_quat |-> p, gyaw |-> gy, gpitch |-> gp,
      groll |-> gr, _delta_time |-> dt] :
        p \in {<<1, 0, 0, 0>>, <<0, 1, 0, 0>>, <<0, 0, -1, 0>>},
        gy \in GyroRates, gp \in GyroRates, gr \in GyroRates, dt \in 0..MaxDelta}

CallCalculateQuaternion ==
    /\ fnIn.fn = "_calculate_quaternion"
    /\ fnOut.fn = ""
    /\ fnOut' = [fn |-> "_calculate_quaternion",
                 value |-> _calculate_quaternion(fnIn._previous_quat, fnIn.gyaw, fnIn.gpitch,
                                                 fnIn.groll, fnIn._delta_time)]
    /\ UNCHANGED <<fnIn, idVars, crcVars, drvVars, initVars>>

\* C19: from the identity quaternion with zero gyro values, whatever the
\* elapsed time, _calculate_quaternion sets q1..q4 to (32767, 0, 0, 0) and
\* keeps the identity, unscaled, for the next frame.
C19_QuaternionIdentity ==
    (/\ fnOut.fn = "_calculate_quaternion"
     /\ fnIn._previous_quat = <<1, 0, 0, 0>>
     /\ fnIn.gyaw = 0 /\ fnIn.gpitch = 0 /\ fnIn.groll = 0) =>
        /\ <<fnOut.value.q1, fnOut.value.q2, fnOut.value.q3, fnOut.value.q4>> = <<32767, 0, 0, 0>>
        /\ fnOut.value._previous_quat = <<1, 0, 0, 0>>

\* C19 witness: identity, no rotation, three seconds elapsed.
C19_Witness ==
    /\ fnIn = [fn |-> "_calculate_quaternion", _previous_quat |-> <<1, 0, 0, 0>>,
               gyaw |-> 0, gpitch |-> 0, groll |-> 0, _delta_time |-> 3]
    /\ fnOut.fn = "_calculate_quaternion"
    /\ fnOut.value.q1 = 32767

(***************************************************************************)
(* DS4EvdevController / DS5EvdevController: the readiness callbacks of the *)
(* gyro and the touchpad node.  The state is a namedtuple: an object with  *)
(* an identity, which _replace never keeps.                                *)
(***************************************************************************)
MaxBatch == 2

EvdevClasses == {"DS4EvdevController", "DS5EvdevController"}

\* The fields of the controller state the two callbacks write.
ZeroState ==
    [gpitch |-> 0, gyaw |-> 0, groll |-> 0, cpad_x |-> 0, cpad_y |-> 0, buttons |-> {}]

\* GYRO_MAP: the field an axis code is stored in ("None": not stored) and
\* the divisor its factor 0.01 stands for.
GYRO_MAP ==
    [ABS_RX |-> <<"gpitch", 100>>, ABS_RY |-> <<"gyaw", 100>>, ABS_RZ |-> <<"groll", 100>>,
     ABS_X |-> <<"None", 1>>, ABS_Y |-> <<"None", 1>>, ABS_Z |-> <<"None", 1>>]

\* namedtuple._replace: a new object, whatever the values.
_replace(o, changes) ==
    [id |-> o.id + 1,
     fields |-> [f \in DOMAIN o.fields |->
                    IF f \in DOMAIN changes THEN changes[f] ELSE o.fields[f]]]

\* a is not b.
is_not(a, b) == a.id # b.id

\* The body of the loop of _gyro_input for one event.
gyro_event(new_state, ev) ==
    IF ev.type = "EV_ABS"
    THEN LET axis == GYRO_MAP[ev.code][1]
             div  == GYRO_MAP[ev.code][2]
         IN IF axis # "None"
            THEN _replace(new_state, [f \in {axis} |-> int_div(ev.value, div)])
            ELSE new_state
    ELSE new_state

\* int(value * TOUCH_FACTOR_X), TOUCH_FACTOR_X = STICK_PAD_MAX / 940.0, and
\* the same with 470.0 for Y.
touch_scale(value, range) == int_div(value * STICK_PAD_MAX, range)

\* Mutant: a release of the touch leaves the coordinates as they are.
touchpad_event_release_keeps(new_state, ev) ==
    IF ev.type = "EV_ABS"
    THEN IF ev.code = "ABS_MT_POSITION_X"
         THEN _replace(new_state, [cpad_x |-> STICK_PAD_MIN + touch_scale(ev.value, 940)])
         ELSE IF ev.code = "ABS_MT_POSITION_Y"
         THEN _replace(new_state, [cpad_y |-> STICK_PAD_MAX - touch_scale(ev.value, 470)])
         ELSE new_state
    ELSE IF ev.type = "EV_SYN" THEN new_state
    ELSE IF ev.code = "BTN_LEFT"
    THEN IF ev.value = 1
         THEN _replace(new_state, [buttons |-> new_state.fields.buttons \cup {"CPADPRESS"}])
         ELSE _replace(new_state, [buttons |-> new_state.fields.buttons \ {"CPADPRESS"}])
    ELSE IF ev.code = "BTN_TOUCH"
    THEN IF ev.value = 1
         THEN _replace(new_state, [buttons |-> new_state.fields.buttons \cup {"CPADTOUCH"}])
         ELSE _replace(new_state, [buttons |-> new_state.fields.buttons \ {"CPADTOUCH"}])
    ELSE new_state

\* The body of the loop of _touchpad_input for one event.
touchpad_event(new_state, ev) ==
    IF ev.type = "EV_ABS"
    THEN IF ev.code = "ABS_MT_POSITION_X"
         THEN _replace(new_state, [cpad_x |-> STICK_PAD_MIN + touch_scale(ev.value, 940)])
         ELSE IF ev.code = "ABS_MT_POSITION_Y"
         THEN _replace(new_state, [cpad_y |-> STICK_PAD_MAX - touch_scale(ev.value, 470)])
         ELSE new_state
    ELSE IF ev.type = "EV_SYN" THEN new_state
    ELSE IF ev.code = "BTN_LEFT"
    THEN IF ev.value = 1
         THEN _replace(new_state, [buttons |-> new_state.fields.buttons \cup {"CPADPRESS"}])
         ELSE _replace(new_state, [buttons |-> new_state.fields.buttons \ {"CPADPRESS"}])
    ELSE IF ev.code = "BTN_TOUCH"
    THEN IF ev.value = 1
         THEN _replace(new_state, [buttons |-> new_state.fields.buttons \cup {"CPADTOUCH"}])
         ELSE _replace(new_state, [buttons |-> new_state.fields.buttons \ {"CPADTOUCH"},
                                   cpad_x |-> 0, cpad_y |-> 0])
    ELSE new_state

\* The loop over the events read, from new_state on.
RECURSIVE read_loop(_, _, _, _)
read_loop(handler, new_state, events, k) ==
    IF k > Len(events) THEN new_state
    ELSE read_loop(handler,
                   IF handler = "_gyro_input" THEN gyro_event(new_state, events[k])
                   ELSE touchpad_event(new_state, events[k]),
                   events, k + 1)

\* The end of both callbacks: if new_state is not self._state, it becomes
\* the state and, with a mapper, (old, new) is dispatched.
commit(state, start, new_state, has_mapper) ==
    IF is_not(new_state, start)
    THEN [state |-> new_state.fields,
          io |-> <<Call("read", <<>>, FALSE, "none")>>
                 \o (IF has_mapper
                     THEN <<Call("mapper.input", <<state, new_state.fields>>, FALSE, "none")>>
                     ELSE <<>>)]
    ELSE [state |-> state, io |-> <<Call("read", <<>>, FALSE, "none")>>]

\* Mutant: the except clause falls through to the end of the callback.
evdev_input_fallthrough(handler, state, events, failAt, has_mapper) ==
    LET start     == [id |-> 0, fields |-> state]
        consumed  == IF failAt = 0 THEN events ELSE SubSeq(events, 1, failAt - 1)
        new_state == read_loop(handler, start, consumed, 1)
    IN commit(state, start, new_state, has_mapper)

\* _gyro_input / _touchpad_input: the state kept and the calls made.  With
\* failAt = k > 0 the read raises OSError in place of its k-th event, after
\* k - 1 events went through the loop, and the except clause returns.
evdev_input(handler, state, events, failAt, has_mapper) ==
    LET start     == [id |-> 0, fields |-> state]
        consumed  == IF failAt = 0 THEN events ELSE SubSeq(events, 1, failAt - 1)
        new_state == read_loop(handler, start, consumed, 1)
    IN IF failAt # 0
       THEN [state |-> state, io |-> <<Call("read", consumed, FALSE, "none"),
                                       Raise(FALSE, "none")>>]
       ELSE commit(state, start, new_state, has_mapper)

\* The events of the gyro node and of the touchpad node.
GyroEvents ==
    {[type |-> "EV_ABS", code |-> "ABS_RX", value |-> 50],
     [type |-> "EV_ABS", code |-> "ABS_RX", value |-> 100],
     [type |-> "EV_ABS", code |-> "ABS_X", value |-> 100]}

TouchpadEvents ==
    {[type |-> "EV_ABS", code |-> "ABS_MT_POSITION_X", value |-> 940],
     [type |-> "EV_KEY", code |-> "BTN_TOUCH", value |-> 1],
     [type |-> "EV_KEY", code |-> "BTN_TOUCH", value |-> 0]}

InitEvdev ==
    /\ kind \in EvdevClasses
    /\ mapper \in BOOLEAN
    /\ self = [_state |-> ZeroState]
    /\ hasPoller = TRUE
    /\ phase = "live"
    /\ registered = TRUE
    /\ handle = "none"
    /\ removeCb = FALSE
    /\ devRemoved = FALSE
    /\ tasks = {}
    /\ io = <<>>
    /\ ret = NoRet
    /\ stops = 0
    /\ IdleIds
    /\ IdleCrc
    /\ IdleAux

\* The poll loop reports the gyro node readable.
GyroInput(events, failAt) ==
    /\ kind \in EvdevClasses
    /\ phase = "live"
    /\ failAt <= Len(events) + 1
    /\ LET r == evdev_input("_gyro_input", self._state, events, failAt, mapper)
       IN /\ self' = [self EXCEPT !._state = r.state]
          /\ io' = r.io
    /\ ret' = [handler |-> "_gyro_input", args |-> <<events, failAt, self._state>>,
               outcome |-> "returned"]
    /\ UNCHANGED <<kind, hasPoller, phase, registered, handle, removeCb, devRemoved,
                   mapper, tasks, stops, idVars, crcVars, auxVars>>

\* The poll loop reports the touchpad node readable.
TouchpadInput(events, failAt) ==
    /\ kind \in EvdevClasses
    /\ phase = "live"
    /\ failAt <= Len(events) + 1
    /\ LET r == evdev_input("_touchpad_input", self._state, events, failAt, mapper)
       IN /\ self' = [self EXCEPT !._state = r.state]
          /\ io' = r.io
    /\ ret' = [handler |-> "_touchpad_input", args |-> <<events, failAt, self._state>>,
               outcome |-> "returned"]
    /\ UNCHANGED <<kind, hasPoller, phase, registered, handle, removeCb, devRemoved,
                   mapper, tasks, stops, idVars, crcVars, auxVars>>

(***************************************************************************)
(* close of the evdev controllers.                                         *)
(***************************************************************************)
\* The calls of the loop over (self._gyro, self._touchpad), in order.
SubDeviceCalls ==
    << <<"unregister", "gyro">>, <<"ungrab", "gyro">>,
       <<"unregister", "touchpad">>, <<"ungrab", "touchpad">> >>

\* The calls made for one sub-device, of which the one at position failAt of
\* SubDeviceCalls raises: the calls up to the raising one; the except clause
\* swallows the exception.
device_calls(first, failAt) ==
    LET last == IF failAt = first THEN first ELSE first + 1
    IN [k \in 1..(last - first + 1) |->
          Call(SubDeviceCalls[first + k - 1][1], <<SubDeviceCalls[first + k - 1][2]>>,
               FALSE, "none")]
       \o (IF failAt \in {first, first + 1} THEN <<Raise(FALSE, "none")>> ELSE <<>>)

\* Mutant: one try around the whole loop.
evdev_close_one_try(failAt) ==
    [io |-> <<Call("EvdevController.close", <<>>, FALSE, "none")>>
            \o (IF failAt \in {1, 2} THEN device_calls(1, failAt)
                ELSE device_calls(1, failAt) \o device_calls(3, failAt)),
     raised |-> FALSE]

\* close(): EvdevController.close(self), then for each of the two
\* sub-devices `try: unregister; ungrab / except: pass`.
evdev_close(failAt) ==
    [io |-> <<Call("EvdevController.close", <<>>, FALSE, "none")>>
            \o device_calls(1, failAt) \o device_calls(3, failAt),
     raised |-> FALSE]

\* The daemon closes the controller; the call at position failAt of
\* SubDeviceCalls raises (0: none).
EvdevClose(failAt) ==
    /\ kind \in EvdevClasses
    /\ phase = "live"
    /\ LET r == evdev_close(failAt)
       IN /\ io' = r.io
          /\ ret' = [handler |-> "close", args |-> <<failAt>>,
                     outcome |-> IF r.raised THEN "raised" ELSE "returned"]
    /\ phase' = "closed"
    /\ registered' = FALSE
    /\ UNCHANGED <<kind, hasPoller, handle, removeCb, devRemoved, mapper, self, tasks,
                   stops, idVars, crcVars, auxVars>>

NextEvdev ==
    \/ \E events \in SeqsUpTo(GyroEvents, MaxBatch), failAt \in 0..(MaxBatch + 1) :
          GyroInput(events, failAt)
    \/ \E events \in SeqsUpTo(TouchpadEvents, MaxBatch), failAt \in 0..(MaxBatch + 1) :
          TouchpadInput(events, failAt)
    \/ \E failAt \in 0..Len(SubDeviceCalls) : EvdevClose(failAt)

SpecEvdev == InitEvdev /\ [][NextEvdev]_vars

\* C20: a gyro or touchpad callback with a mapper attached dispatches at
\* most once, with the state before the batch as old and the state kept as
\* new; exactly once if the batch changed the state, and not at all if it
\* left every field as it was.
C20_OneDispatchPerChange ==
    (ret.handler \in {"_gyro_input", "_touchpad_input"} /\ mapper) =>
        LET before == ret.args[3]
            after  == self._state
        IN /\ Cardinality(Dispatched) <= 1
           /\ \A i \in Dispatched : io[i].data = <<before, after>>
           /\ after # before => Cardinality(Dispatched) = 1
           /\ after = before => Dispatched = {}

\* C21: when the read of the gyro or touchpad node raises OSError, at once
\* or after some events of the batch went through the loop, the callback
\* returns, the state is what it was before and nothing is dispatched.
C21_OSErrorDiscardsBatch ==
    (ret.handler \in {"_gyro_input", "_touchpad_input"} /\ ret.args[2] # 0) =>
        /\ ret.outcome = "returned"
        /\ self._state = ret.args[3]
        /\ Dispatched = {}

\* C21 witness: the touchpad read raised after a touch event that would have
\* set CPADTOUCH; the state kept has no CPADTOUCH.
C21_Witness ==
    /\ ret.handler = "_touchpad_input"
    /\ mapper
    /\ ret.args[1] = << [type |-> "EV_KEY", code |-> "BTN_TOUCH", value |-> 1],
                        [type |-> "EV_ABS", code |-> "ABS_MT_POSITION_X", value |-> 940] >>
    /\ ret.args[2] = 2
    /\ io[1].data = << [type |-> "EV_KEY", code |-> "BTN_TOUCH", value |-> 1] >>
    /\ io[2].op = "raise"
    /\ "CPADTOUCH" \notin self._state.buttons

\* The positions in the trace of the calls named op.
At(op) == {i \in 1..Len(io) : io[i].op = op}

\* The frame is the init frame: operating mode DS5_MODE_BT, data id 2, light
\* effect control 0x55, lightbar (0, 0, 200), motors off, checksummed.
IsInitFrame(f) ==
    /\ Len(f) = 78
    /\ f[1] = 49 /\ f[2] = 2 /\ f[3] = 0 /\ f[4] = 85
    /\ f[5] = 0 /\ f[6] = 0
    /\ f[47] = 0 /\ f[48] = 0 /\ f[49] = 200
    /\ CrcFramed(f)

\* The trace of a construction is in handshake order.
HandshakeOrder ==
    /\ Cardinality(At("write")) <= 1
    /\ Cardinality(At("read")) <= 1
    /\ Cardinality(At("getFeatureReport")) <= 1
    /\ At("mapper.input") = {}
    /\ \A w \in At("write") :
          /\ IsInitFrame(io[w].data)
          /\ \E g \in At("getFeatureReport") : g < w /\ io[g].data = <<9>>
    /\ \A r \in At("read") :
          /\ io[r].data = <<78>>
          /\ \E w \in At("write") : w < r
    /\ \A i \in At("register") \cup At("add_remove_callback") \cup At("add_controller") :
          \E r \in At("read") : r < i

\* The construction handshake ran to its end: the controller was constructed,
\* or its constructor failed after the handshake, at a call into the daemon,
\* and left the poll loop or the device monitor holding the object.
Constructed == phase \notin {"absent", "failed"} \/ registered \/ removeCb

\* C22: the construction of the DS5 Bluetooth controller reads feature
\* report 9, writes the checksummed init frame once, reads 78 bytes and only
\* then registers with the poll loop and the daemon; no other handler of the
\* controller writes a frame or decodes an input frame before a construction
\* that made these calls has completed.
C22_HandshakeFirst ==
    /\ [](kind = "DS5HidRawController" =>
            /\ ret.handler = "make_bt_hidraw_callback" =>
                  /\ HandshakeOrder
                  /\ Constructed =>
                        /\ At("getFeatureReport") # {}
                        /\ At("write") # {}
                        /\ At("read") # {}
                  /\ phase = "live" =>
                        /\ At("add_controller") # {}
                        /\ hasPoller => At("register") # {}
            /\ (ret.handler # "make_bt_hidraw_callback"
                 /\ (At("write") # {} \/ At("mapper.input") # {} \/ ret.handler = "_input")) =>
                  Constructed)
    /\ [][(kind = "DS5HidRawController" /\ ~Constructed /\ Constructed') =>
             ret'.handler = "make_bt_hidraw_callback"]_vars

\* C22 witness: a construction with a poll loop ran to its end.
C22_Witness ==
    /\ kind = "DS5HidRawController"
    /\ ret.handler = "make_bt_hidraw_callback"
    /\ phase = "live" /\ registered
    /\ Ops(io) = <<"get_hidraw", "open", "getName", "get_active_ids", "getFeatureReport",
                   "flush", "write", "read", "getPhysicalAddress", "register",
                   "add_remove_callback", "add_controller">>
    /\ io[5].data = <<9>> /\ IsInitFrame(io[7].data) /\ io[8].data = <<78>>

(***************************************************************************)
(* SpecLive: Spec with a scheduler that runs a pending task in the end.    *)
(* mapper.schedule(duration, clear_feedback) is a timer of the host: a     *)
(* task that stays pending is run.                                         *)
(***************************************************************************)
SchedulerFires == \E tid \in 1..(MaxPending + 1), fails \in BOOLEAN : ClearFeedback(tid, fails)

\* A DS5 controller, the only classes with feedback.
InitLive == InitDrv /\ kind \in DS5Feedback

\* The steps of Spec, the arguments that do not bear on the stop drawn from
\* smaller sets: one icon, one input frame, two pulses.
NextLive ==
    \/ \E failAt \in RaisingCalls \cup {"get_hidraw", "none"} : MakeBtHidrawCallback(failAt)
    \/ HidCallback
    \/ \E m \in BOOLEAN : SetMapper(m)
    \/ \E position \in HapticPos, amplitude \in Amplitudes, fails \in BOOLEAN :
          \E pulse \in {<<1024, 1>>, <<32768, 2>>} :
             Feedback(position, amplitude, pulse[1], pulse[2], fails)
    \/ SchedulerFires
    \/ \E fails \in BOOLEAN : Configure(<<>>, 100, fails)
    \/ \E failAt \in 0..2 : Flush(failAt)
    \/ \E fails \in BOOLEAN : Input(InputFrame(49, 200), fails)
    \/ Close
    \/ DeviceRemoved

SpecLive == InitLive /\ [][NextLive]_vars /\ WF_vars(SchedulerFires)

TaskIds == 0..(MaxPending + 1)

\* clear_feedback of the task tid has run: both motor fields are zero and
\* the record is staged under 'feedback' (USB), or a frame with both motor
\* bytes zero was handed to write (Bluetooth).
Stopped(tid) ==
    /\ ret.handler = "clear_feedback"
    /\ ret.args = <<tid>>
    /\ self.motor_right = 0 /\ self.motor_left = 0
    /\ IF kind = "DS5Controller"
       THEN \E k \in 1..Len(self.outputs) :
               self.outputs[k].key = "feedback" /\ self.outputs[k].alias
       ELSE \E w \in Writes : io[w].data[5] = 0 /\ io[w].data[6] = 0

\* A feedback call was made after the one that left task tid and outcome o.
FurtherFeedback(tid, o) ==
    ret.handler = "feedback" /\ (self.task # tid \/ ret.outcome # o)

StagingHandlers == {"feedback", "clear_feedback", "configure", "make_bt_hidraw_callback"}

\* C24: on the DS5 Bluetooth controller, when feedback, its auto-stop task,
\* configure or the construction returns, the pending-outputs map is empty
\* and the one frame the call staged was written by the flush of that call;
\* the flush at the end of an input cycle finds the map empty.
C24_StagedFramesWrittenAtOnce ==
    kind = "DS5HidRawController" =>
        /\ (/\ ret.handler \in StagingHandlers
            /\ ret.outcome = "returned"
            /\ ret.handler = "make_bt_hidraw_callback" => phase = "live") =>
              /\ self.outputs = <<>>
              /\ Cardinality(FlushEntries) = 1
              /\ \A i \in FlushEntries :
                    /\ Len(io[i].data) = 1
                    /\ i + 1 \in Writes
                    /\ io[i + 1].data = io[i].data[1].data
        /\ ret.handler = "_input" => \A i \in FlushEntries : io[i].data = <<>>

\* C24 witness: an input cycle after a feedback call that returned: its
\* flush found nothing to write.
C24_Witness ==
    /\ kind = "DS5HidRawController"
    /\ ret.handler = "_input"
    /\ self.task # 0
    /\ FlushEntries # {}
    /\ Writes = {}

\* C25: a feedback call with LEFT changes the left motor field only, with
\* RIGHT the right motor field only, with BOTH it sets right to the clamped
\* and left to the half value; the record staged or written carries both
\* fields (USB: the record itself is staged under 'feedback'; Bluetooth: a
\* frame with both bytes is written), so a value an earlier call gave the
\* other motor is still in it.
C25_FeedbackTargets ==
    [][(kind \in DS5Feedback /\ ret'.handler = "feedback") =>
          LET position  == ret'.args[3]
              amplitude == ret'.args[4]
              right     == IF position = "LEFT" THEN self.motor_right
                           ELSE clamped_amp(amplitude) % 256
              left      == IF position = "RIGHT" THEN self.motor_left
                           ELSE half_amp(amplitude) % 256
          IN /\ self'.motor_right = right
             /\ self'.motor_left = left
             /\ IF kind = "DS5Controller"
                THEN \E k \in 1..Len(self'.outputs) :
                        self'.outputs[k].key = "feedback" /\ self'.outputs[k].alias
                ELSE \E i \in 1..Len(io') :
                        /\ io'[i].op = "write"
                        /\ io'[i].data[5] = right /\ io'[i].data[6] = left]_vars

\* C25 witness: feedback(LEFT) on the Bluetooth controller while the right
\* motor runs from an earlier call: the frame written carries both values.
C25_Witness ==
    /\ kind = "DS5HidRawController"
    /\ ret.handler = "feedback" /\ ret.outcome = "returned"
    /\ ret.args[3] = "LEFT"
    /\ \E w \in Writes : io[w].data[5] = 155 /\ io[w].data[6] = 78
    /\ stops = 0

(***************************************************************************)
(* The motor values of feedback on drawn amplitudes.                       *)
(***************************************************************************)
AmplitudeSamples ==
    {0, 1, 127, 128, 129, 255, 256, 512, 20000, 32767, 32768, 32769, 33023, 33024,
     49152, 65535}

FeedbackInputs ==
    {[fn |-> "feedback", position |-> p, amplitude |-> a] :
        p \in HapticPos, a \in AmplitudeSamples}

\* The position branches of feedback on a record with both motors at 0.
CallFeedback ==
    /\ fnIn.fn = "feedback"
    /\ fnOut.fn = ""
    /\ fnOut' = [fn |-> "feedback",
                 motors |-> set_motors(fnIn.position, fnIn.amplitude, 0, 0)]
    /\ UNCHANGED <<fnIn, idVars, crcVars, drvVars, initVars>>

\* C26: for every amplitude in 0..0xFFFF the right motor value feedback
\* stores lies in 0..255 and the left one in 0..128, right being the integer
\* part of amplitude * 0xff / 0x8000 and left the integer part of
\* amplitude * 0x80 / 0x8000, each kept modulo 256 by the one-byte field.
C26_MotorRanges ==
    (fnOut.fn = "feedback" /\ fnIn.amplitude \in 0..65535) =>
        /\ fnIn.position \in {"RIGHT", "BOTH"} =>
              /\ fnOut.motors.motor_right \in 0..255
              /\ fnOut.motors.motor_right = ((fnIn.amplitude * 255) \div 32768) % 256
        /\ fnIn.position \in {"LEFT", "BOTH"} =>
              /\ fnOut.motors.motor_left \in 0..128
              /\ fnOut.motors.motor_left = ((fnIn.amplitude * 128) \div 32768) % 256

(***************************************************************************)
(* SpecTimed: DS5HidRawController._input with the clock.  Times are whole  *)
(* seconds; current_time is what time.time() returns in the callback.      *)
(***************************************************************************)
MaxTime == 3

c_int16(v) == IF v >= 32768 THEN v - 65536 ELSE v

\* The gyro fields _convert_input_data reads from bytes 17..22 of the frame.
gyro_of(data) ==
    [gpitch |-> c_int16(data[19] * 256 + data[18]),
     gyaw   |-> c_int16(data[21] * 256 + data[20]) * (-1),
     groll  |-> c_int16(data[23] * 256 + data[22]) * (-1)]

\* The input states a controller allocates in the behaviours checked.
MaxObjects == 4

\* DualSenseBTControllerInput(): a fresh structure, every field zero; it is
\* the n-th structure the controller has allocated.
DualSenseBTControllerInput(n) ==
    [decoded |-> [stick_x |-> 0, stick_y |-> 0, rpad_x |-> 0, rpad_y |-> 0,
                  ltrig |-> 0, rtrig |-> 0, buttons |-> {}, lpad_x |-> 0, lpad_y |-> 0,
                  cpad_x |-> 0, cpad_y |-> 0],
     gyro    |-> [gpitch |-> 0, gyaw |-> 0, groll |-> 0],
     q       |-> <<0, 0, 0, 0>>,
     obj     |-> n]

\* Mutant: the decoded state is remembered only when it was dispatched.
input_remembers_dispatched(obj, data, current_time, has_mapper) ==
    IF data[1] # DS5_INPUT_REPORT
    THEN [obj |-> obj, io |-> <<Call("read", <<BT_FRAME_SIZE>>, TRUE, "open")>>]
    ELSE LET gyro       == gyro_of(data)
             quat       == _calculate_quaternion(obj._previous_quat, gyro.gyaw, gyro.gpitch,
                                                 gyro.groll, current_time - obj._previous_time)
             state_data == [DualSenseBTControllerInput(obj._allocated + 1) EXCEPT
                               !.decoded = _convert_input_data(data), !.gyro = gyro,
                               !.q = <<quat.q1, quat.q2, quat.q3, quat.q4>>]
         IN [obj |-> [obj EXCEPT !._old_state = IF has_mapper THEN state_data ELSE @,
                                 !._previous_quat = quat._previous_quat,
                                 !._delta_time = current_time - obj._previous_time,
                                 !._previous_time = current_time,
                                 !._outputs = <<>>,
                                 !._allocated = @ + 1],
             io  |-> <<Call("read", <<BT_FRAME_SIZE>>, TRUE, "open")>>
                     \o (IF has_mapper
                         THEN <<Call("mapper.input", <<obj._old_state, state_data>>, TRUE, "open")>>
                         ELSE <<>>)
                     \o flush("DS5HidRawController", obj._outputs, 0, 0, 0, TRUE, "open").io]

\* Mutant: the timestamp is taken before the first byte is looked at.
input_stamps_rejected(obj, data, current_time, has_mapper) ==
    [obj |-> [obj EXCEPT !._previous_time = current_time],
     io  |-> <<Call("read", <<BT_FRAME_SIZE>>, TRUE, "open")>>]

\* _input after a read that returned data: the object after it and the
\* calls made.  _convert_input_data allocates the structure it fills.
_input(obj, data, current_time, has_mapper) ==
    IF data[1] # DS5_INPUT_REPORT
    THEN [obj |-> obj, io |-> <<Call("read", <<BT_FRAME_SIZE>>, TRUE, "open")>>]
    ELSE LET old_state  == obj._old_state
             delta_time == current_time - obj._previous_time
             gyro       == gyro_of(data)
             quat       == _calculate_quaternion(obj._previous_quat, gyro.gyaw, gyro.gpitch,
                                                 gyro.groll, delta_time)
             state_data == [DualSenseBTControllerInput(obj._allocated + 1) EXCEPT
                               !.decoded = _convert_input_data(data), !.gyro = gyro,
                               !.q = <<quat.q1, quat.q2, quat.q3, quat.q4>>]
             out        == flush("DS5HidRawController", obj._outputs, 0, 0, 0, TRUE, "open")
         IN [obj |-> [_old_state     |-> state_data,
                      _previous_quat |-> quat._previous_quat,
                      _delta_time    |-> delta_time,
                      _previous_time |-> current_time,
                      _outputs       |-> out.outputs,
                      _allocated     |-> obj._allocated + 1],
             io  |-> <<Call("read", <<BT_FRAME_SIZE>>, TRUE, "open")>>
                     \o (IF has_mapper
                         THEN <<Call("mapper.input", <<old_state, state_data>>, TRUE, "open")>>
                         ELSE <<>>)
                     \o out.io]

\* A frame with first byte b0 and the raw pitch rate g in bytes 17, 18.
GyroFrame(b0, g) ==
    [i \in 1..BT_FRAME_SIZE |->
        CASE i = 1 -> b0
          [] i = 18 -> g % 256
          [] i = 19 -> (g \div 256) % 256
          [] OTHER -> 0]

TimedFrames == {GyroFrame(b0, g) : b0 \in {1, 17, 49}, g \in {0, 2880}}

\* The controller after its construction at time 0, registered.
InitTimed ==
    /\ kind = "DS5HidRawController"
    /\ mapper \in BOOLEAN
    /\ self = [_old_state |-> DualSenseBTControllerInput(1), _previous_quat |-> <<1, 0, 0, 0>>,
               _delta_time |-> 0, _previous_time |-> 0, _outputs |-> <<>>, _allocated |-> 1]
    /\ hasPoller = TRUE
    /\ phase = "live"
    /\ registered = TRUE
    /\ handle = "open"
    /\ removeCb = TRUE
    /\ devRemoved = FALSE
    /\ tasks = {}
    /\ io = <<>>
    /\ ret = NoRet
    /\ stops = 0
    /\ IdleIds
    /\ IdleCrc
    /\ IdleAux

\* The time of the latest callback, as far as the state tells: that of the
\* latest _input, or of the latest accepted frame.
LastCall == IF ret.handler = "_input" THEN ret.args[2] ELSE self._previous_time

\* The poll loop reports the node readable at current_time; the read
\* returns data.
TimedInput(data, current_time) ==
    /\ kind = "DS5HidRawController"
    /\ current_time >= LastCall
    /\ self._allocated < MaxObjects
    /\ LET r == _input(self, data, current_time, mapper)
       IN /\ self' = r.obj
          /\ io' = r.io
    /\ ret' = [handler |-> "_input", args |-> <<data, current_time>>, outcome |-> "returned"]
    /\ UNCHANGED <<kind, hasPoller, phase, registered, handle, removeCb, devRemoved,
                   mapper, tasks, stops, idVars, crcVars, auxVars>>

NextTimed ==
    \/ \E data \in TimedFrames, current_time \in 0..MaxTime : TimedInput(data, current_time)
    \/ \E m \in BOOLEAN : SetMapper(m)

SpecTimed == InitTimed /\ [][NextTimed]_vars

\* C27: a frame whose first byte is not 0x31 leaves the controller as it
\* was (remembered state, cumulative quaternion, timestamp, pending
\* outputs) with no call beyond the read; an accepted frame integrates over
\* the time since the timestamp, which is that of the last accepted frame
\* whatever frames were rejected in between.
C27_RejectedFrameNoEffect ==
    [][ret'.handler = "_input" =>
          IF ret'.args[1][1] # 49
          THEN /\ self' = self
               /\ Ops(io') = <<"read">>
          ELSE /\ self'._delta_time = ret'.args[2] - self._previous_time
               /\ self'._previous_time = ret'.args[2]
               /\ self'._previous_quat =
                     _calculate_quaternion(self._previous_quat, 0, ret'.args[1][19] * 256
                         + ret'.args[1][18], 0, ret'.args[2] - self._previous_time)._previous_quat
      ]_vars

\* C27 witness: a frame was rejected at time 2, after a frame accepted at
\* time 1 that turned the quaternion: timestamp and quaternion are those of
\* time 1.
C27_Witness ==
    /\ ret.handler = "_input"
    /\ ret.args[1][1] = 17
    /\ ret.args[2] = 2
    /\ self._previous_time = 1
    /\ self._delta_time = 1
    /\ self._previous_quat # <<1, 0, 0, 0>>
    /\ Ops(io) = <<"read">>

\* C28: whenever make_evdev_device makes a composite controller, the gyro
\* and the touchpad node it chose have a physical address that starts with
\* the part before the first '/' of the physical address of the 8-axis node
\* it chose, whatever the nodes and their order.
C28_SensorsShareControllerPhys ==
    (fnOut.fn = "make_evdev_device" /\ fnOut.value.made) =>
        LET ds   == fnIn.devices
            r    == fnOut.value
            phys == split0(ds[r.controller].phys)
        IN /\ startswith(ds[r.gyro].phys, phys)
           /\ startswith(ds[r.touchpad].phys, phys)

\* The colour bytes the lightbar is to get for an icon name: palette entry N
\* when the final -N segment before the extension is an integer in 0..6,
\* blue in every other case; each channel color * led_level / 100 * 255.
ExpectedLightbar(icon, led_level) ==
    LET name == IF rfind(icon, ".") = 0 THEN icon ELSE SubSeq(icon, 1, rfind(icon, ".") - 1)
        seg  == IF rfind(name, "-") = 0 THEN <<>>
                ELSE SubSeq(name, rfind(name, "-") + 1, Len(name))
        N    == int_of(seg)
        base == IF N \in 0..6 THEN ICON_COLORS[N + 1] ELSE <<0, 0, 10>>
    IN [k \in 1..3 |-> (base[k] * led_level * 255) \div 1000]

\* The write of the latest call raised: a failure of the transport.
WriteRaised == \E i \in Writes : i + 1 \in DOMAIN io /\ io[i + 1].op = "raise"

\* C29: configure of the DS5 controllers completes for every icon argument
\* and stages (Bluetooth: writes) a lightbar record whose colour is the
\* palette entry of the icon's numeric suffix, or blue, scaled by led_level,
\* each channel in 0..255; it never raises over the icon name.
C29_ConfigureEveryIcon ==
    (kind \in DS5Feedback /\ ret.handler = "configure" /\ ~WriteRaised) =>
        LET rgb == ExpectedLightbar(ret.args[1], ret.args[2])
        IN /\ ret.outcome = "returned"
           /\ \A k \in 1..3 : rgb[k] \in 0..255
           /\ IF kind = "DS5Controller"
              THEN \E j \in 1..Len(self.outputs) :
                      /\ self.outputs[j].key = "lightbar"
                      /\ SubSeq(self.outputs[j].data, 46, 48) = rgb
              ELSE \E w \in Writes : SubSeq(io[w].data, 47, 49) = rgb

\* The 14 button bits of bytes 9, 10 and 11: <<flag, byte, bit>>.
ButtonBits ==
    { <<"Y", 9, 7>>, <<"B", 9, 6>>, <<"A", 9, 5>>, <<"X", 9, 4>>,
      <<"RPAD", 10, 7>>, <<"STICKPRESS", 10, 6>>, <<"START", 10, 5>>, <<"BACK", 10, 4>>,
      <<"RT", 10, 3>>, <<"LT", 10, 2>>, <<"RB", 10, 1>>, <<"LB", 10, 0>>,
      <<"C", 11, 0>>, <<"CPADPRESS", 11, 1>> }

\* C30: in the DS5 Bluetooth decode the flags among Y, B, A, X, RPAD,
\* STICKPRESS, START, BACK, RT, LT, RB, LB, C and CPADPRESS are exactly
\* those whose bit is set in bytes 9, 10 and 11 of the frame, whatever the
\* other bits and bytes.
C30_ButtonBits ==
    fnOut.fn = "_convert_input_data" =>
        \A b \in ButtonBits :
            (b[1] \in fnOut.value.buttons)
                <=> ((fnIn.data[b[2] + 1] \div (2 ^ b[3])) % 2 = 1)

\* C30 witness: only bit 3 of byte 10 is set among the button bits, in a
\* frame with every other byte 255: RT is the only flag of the 14.
C30_Witness ==
    /\ fnOut.fn = "_convert_input_data"
    /\ fnIn.data[10] = 0 /\ fnIn.data[11] = 8 /\ fnIn.data[12] = 252
    /\ fnIn.data[3] = 255
    /\ fnOut.value.buttons \cap {b[1] : b \in ButtonBits} = {"RT"}

(***************************************************************************)
(* DS4Controller.input and DS5Controller.input: the decode of a HID report *)
(* by the decoder library and the override of the centre-pad touch flag.   *)
(* A decoder is [old_state, state], a state the set of its button flags.   *)
(***************************************************************************)
UsbInputClasses == {"DS4HIDController", "DS4HIDRawController", "DS5Controller"}

\* The index of the byte with the touch bit: data[35] in DS4Controller.input,
\* data[33] in DS5Controller.input.
touch_index(cls) == IF cls = "DS5Controller" THEN 33 ELSE 35

\* Mutant: the flag is set when the bit is set.
cpad_not_touched_inverted(cls, data) == data[touch_index(cls) + 1] \div 128 = 0

\* data[35] >> 7 (data[33] >> 7) is non-zero: the pad is not touched.
cpad_not_touched(cls, data) == data[touch_index(cls) + 1] \div 128 # 0

\* _lib.decode: a report it can decode moves state to old_state and stores
\* the decoded flags; any other report leaves the decoder as it is.
decode(decoder, decode_ok, decoded) ==
    IF decode_ok THEN [old_state |-> decoder.state, state |-> decoded] ELSE decoder

\* Mutant: the flag is derived before the mapper is looked at.
input_derives_always(cls, decoder, data, decode_ok, decoded, has_mapper) ==
    LET d     == decode(decoder, decode_ok, decoded)
        state == IF cpad_not_touched(cls, data) THEN d.state \ {"CPADTOUCH"}
                 ELSE d.state \cup {"CPADTOUCH"}
    IN IF ~decode_ok THEN [decoder |-> d, io |-> <<>>]
       ELSE [decoder |-> [d EXCEPT !.state = state],
             io |-> IF has_mapper
                    THEN <<Call("mapper.input", <<d.old_state, state>>, FALSE, "open")>>
                    ELSE <<>>]

\* input(endpoint, data): the decoder after it and the calls made.
input(cls, decoder, data, decode_ok, decoded, has_mapper) ==
    LET d     == decode(decoder, decode_ok, decoded)
        state == IF cpad_not_touched(cls, data) THEN d.state \ {"CPADTOUCH"}
                 ELSE d.state \cup {"CPADTOUCH"}
    IN IF decode_ok /\ has_mapper
       THEN [decoder |-> [d EXCEPT !.state = state],
             io |-> <<Call("mapper.input", <<d.old_state, state>>, FALSE, "open")>>]
       ELSE [decoder |-> d, io |-> <<>>]

\* A 64-byte report with the byte of the touch bit set to v.
UsbReport(cls, v) == [i \in 1..64 |-> IF i = touch_index(cls) + 1 THEN v ELSE 0]

\* A Bluetooth frame with byte 34 set to v.
TouchFrame(v) ==
    [i \in 1..BT_FRAME_SIZE |->
        CASE i = 1 -> DS5_INPUT_REPORT
          [] i = 35 -> v
          [] OTHER -> 0]

DecodedFlags == {{}, {"A"}, {"CPADTOUCH"}, {"A", "CPADTOUCH"}}

UsbInputs ==
    {[fn |-> "input", cls |-> c, touch |-> v, decode_ok |-> ok, decoded |-> f,
      state |-> s, has_mapper |-> m] :
        c \in UsbInputClasses, v \in {0, 127, 128, 255}, ok \in BOOLEAN,
        f \in DecodedFlags, s \in {{}, {"CPADTOUCH"}}, m \in BOOLEAN}

CallInput ==
    /\ fnIn.fn = "input"
    /\ fnOut.fn = ""
    /\ fnOut' = [fn |-> "input",
                 value |-> input(fnIn.cls, [old_state |-> {}, state |-> fnIn.state],
                                 UsbReport(fnIn.cls, fnIn.touch), fnIn.decode_ok,
                                 fnIn.decoded, fnIn.has_mapper)]
    /\ UNCHANGED <<fnIn, idVars, crcVars, drvVars, initVars>>

\* The flag the Bluetooth decode gives for the touch byte v.
BtTouched(v) == "CPADTOUCH" \in _convert_input_data(TouchFrame(v)).buttons

\* The flag DS5Controller.input left in the decoder's state.
UsbTouched == "CPADTOUCH" \in fnOut.value.decoder.state

\* A DS5 USB report was decoded with a mapper attached.
UsbDecoded ==
    /\ fnOut.fn = "input"
    /\ fnIn.cls = "DS5Controller"
    /\ fnIn.decode_ok /\ fnIn.has_mapper

\* C31 as stated: Bluetooth sets the flag exactly when bit 7 of byte 34 is
\* unset, and for the same value of the bit the USB path yields the
\* opposite flag.
C31_PolarityInverted ==
    UsbDecoded =>
        /\ BtTouched(fnIn.touch) <=> (fnIn.touch \div 128 = 0)
        /\ UsbTouched <=> ~BtTouched(fnIn.touch)

\* C31: Bluetooth sets the centre-pad-touch flag exactly when bit 7 of byte
\* 34 is unset, and the USB path (bit 7 of byte 33, mapper attached) yields
\* the same flag for the same value of the bit.
C31_PolaritySame ==
    UsbDecoded =>
        /\ BtTouched(fnIn.touch) <=> (fnIn.touch \div 128 = 0)
        /\ UsbTouched <=> BtTouched(fnIn.touch)

\* C31 witness: the bit is unset in a report whose decoder did not set the
\* flag: both paths say touched.
C31_Witness ==
    /\ UsbDecoded
    /\ fnIn.touch = 127
    /\ fnIn.decoded = {"A"}
    /\ UsbTouched /\ BtTouched(127)

\* The flag derived from bit 7 of the touch byte of the report.
DerivedTouch == fnIn.touch \div 128 = 0

\* The flags other than the centre-pad touch are those of the decoder.
OtherFlagsDecoded == fnOut.value.decoder.state \ {"CPADTOUCH"} = fnIn.decoded \ {"CPADTOUCH"}

\* A failed decode changes nothing and forwards nothing.
FailedDecodeIdle ==
    (fnOut.fn = "input" /\ ~fnIn.decode_ok) =>
        /\ fnOut.value.decoder = [old_state |-> {}, state |-> fnIn.state]
        /\ fnOut.value.io = <<>>

\* C32 as stated: every successful decode is followed by deriving the flag
\* from bit 7 of the touch byte, with or without a mapper; the pair is
\* forwarded only with a mapper; a failed decode changes no flag and
\* forwards nothing.
C32_TouchDerivedAlways ==
    /\ (fnOut.fn = "input" /\ fnIn.decode_ok) =>
          /\ ("CPADTOUCH" \in fnOut.value.decoder.state) <=> DerivedTouch
          /\ OtherFlagsDecoded
          /\ fnOut.value.io # <<>> <=> fnIn.has_mapper
    /\ FailedDecodeIdle

\* C32: after a successful decode with a mapper attached the flag is derived
\* from bit 7 of byte 35 (DS4) or 33 (DS5) and the pair (old state, state)
\* is forwarded; with no mapper the state is left as the decoder stored it
\* and nothing is forwarded; a failed decode changes no flag and forwards
\* nothing.
C32_TouchDerivedWithMapper ==
    /\ (fnOut.fn = "input" /\ fnIn.decode_ok) =>
          /\ OtherFlagsDecoded
          /\ fnOut.value.decoder.old_state = fnIn.state
          /\ IF fnIn.has_mapper
             THEN /\ ("CPADTOUCH" \in fnOut.value.decoder.state) <=> DerivedTouch
                  /\ Ops(fnOut.value.io) = <<"mapper.input">>
                  /\ fnOut.value.io[1].data = <<fnIn.state, fnOut.value.decoder.state>>
             ELSE /\ fnOut.value.decoder.state = fnIn.decoded
                  /\ fnOut.value.io = <<>>
    /\ FailedDecodeIdle

\* C32 witness: a DS4 report with the touch bit unset was decoded with no
\* mapper attached; the decoder's state has no touch flag.
C32_Witness ==
    /\ fnOut.fn = "input"
    /\ fnIn.cls = "DS4HIDController"
    /\ fnIn.decode_ok /\ ~fnIn.has_mapper
    /\ fnIn.touch = 0
    /\ fnIn.decoded = {"A"}
    /\ fnOut.value.decoder.state = {"A"}

(***************************************************************************)
(* One event of the touchpad node applied to a drawn state.                *)
(***************************************************************************)
TouchStates ==
    {[gpitch |-> g, gyaw |-> 0, groll |-> 0, cpad_x |-> x, cpad_y |-> y, buttons |-> b] :
        g \in {0, 5}, x \in {0, 100}, y \in {0, -7},
        b \in SUBSET {"A", "CPADTOUCH", "CPADPRESS"}}

TouchEvents ==
    {[type |-> "EV_ABS", code |-> c, value |-> v] :
        c \in {"ABS_MT_POSITION_X", "ABS_MT_POSITION_Y", "ABS_MT_SLOT"}, v \in {0, 1, 235, 470, 940}}
    \cup {[type |-> "EV_KEY", code |-> c, value |-> v] :
             c \in {"BTN_LEFT", "BTN_TOUCH", "BTN_TOOL_FINGER"}, v \in {0, 1}}
    \cup {[type |-> "EV_SYN", code |-> "SYN_REPORT", value |-> 0]}

TouchEventInputs ==
    {[fn |-> "touchpad_event", state |-> s, event |-> e] : s \in TouchStates, e \in TouchEvents}

CallTouchpadEvent ==
    /\ fnIn.fn = "touchpad_event"
    /\ fnOut.fn = ""
    /\ fnOut' = [fn |-> "touchpad_event",
                 value |-> touchpad_event([id |-> 0, fields |-> fnIn.state], fnIn.event).fields]
    /\ UNCHANGED <<fnIn, idVars, crcVars, drvVars, initVars>>

\* C33: in the touchpad callback a touch release clears CPADTOUCH and sets
\* both coordinates to 0, a touch press sets CPADTOUCH only, a BTN_LEFT
\* event sets or clears CPADPRESS only, a position event changes its own
\* coordinate only (X to STICK_PAD_MIN + the integer part of
\* value * STICK_PAD_MAX / 940, Y to STICK_PAD_MAX - the integer part of
\* value * STICK_PAD_MAX / 470); every other field stays as it was.
C33_TouchpadEvents ==
    fnOut.fn = "touchpad_event" =>
        LET s == fnIn.state
            e == fnIn.event
            r == fnOut.value
        IN CASE e.code = "BTN_TOUCH" /\ e.value = 0 ->
                   r = [s EXCEPT !.buttons = @ \ {"CPADTOUCH"}, !.cpad_x = 0, !.cpad_y = 0]
             [] e.code = "BTN_TOUCH" /\ e.value = 1 ->
                   r = [s EXCEPT !.buttons = @ \cup {"CPADTOUCH"}]
             [] e.code = "BTN_LEFT" /\ e.value = 1 ->
                   r = [s EXCEPT !.buttons = @ \cup {"CPADPRESS"}]
             [] e.code = "BTN_LEFT" /\ e.value = 0 ->
                   r = [s EXCEPT !.buttons = @ \ {"CPADPRESS"}]
             [] e.code = "ABS_MT_POSITION_X" ->
                   r = [s EXCEPT !.cpad_x = -32768 + (e.value * 32767) \div 940]
             [] e.code = "ABS_MT_POSITION_Y" ->
                   r = [s EXCEPT !.cpad_y = 32767 - (e.value * 32767) \div 470]
             [] OTHER -> r = s

\* C33 witness: a release on a touched and pressed pad with coordinates
\* (100, -7): the touch flag is gone, the press flag stays, both
\* coordinates are 0.
C33_Witness ==
    /\ fnOut.fn = "touchpad_event"
    /\ fnIn.event = [type |-> "EV_KEY", code |-> "BTN_TOUCH", value |-> 0]
    /\ fnIn.state.cpad_x = 100 /\ fnIn.state.cpad_y = -7
    /\ fnIn.state.buttons = {"A", "CPADTOUCH", "CPADPRESS"}
    /\ fnOut.value.buttons = {"A", "CPADPRESS"}
    /\ fnOut.value.cpad_x = 0 /\ fnOut.value.cpad_y = 0
    /\ fnOut.value.gpitch = fnIn.state.gpitch

\* The calls of the trace made on the sub-device dev.
CallsOn(dev) == {i \in 1..Len(io) : io[i].data = <<dev>>}

\* C34: close of an evdev controller does not raise over its sub-devices:
\* when the unregister or the ungrab of the gyro node raises, the error is
\* swallowed and the unregister of the touchpad node is still called (and
\* its ungrab, unless that unregister raises).
C34_CloseTolerant ==
    (kind \in EvdevClasses /\ ret.handler = "close") =>
        /\ ret.outcome = "returned"
        /\ \E i \in CallsOn("gyro") : io[i].op = "unregister"
        /\ \E i \in CallsOn("touchpad") :
              /\ io[i].op = "unregister"
              /\ \A j \in CallsOn("gyro") : j < i
        /\ ret.args[1] # 3 => \E i \in CallsOn("touchpad") : io[i].op = "ungrab"

\* C34 witness: the unregister of the gyro node raised; both calls on the
\* touchpad node were made after it.
C34_Witness ==
    /\ kind \in EvdevClasses
    /\ ret.handler = "close" /\ ret.args = <<1>>
    /\ Ops(io) = <<"EvdevController.close", "unregister", "raise", "unregister", "ungrab">>
    /\ io[4].data = <<"touchpad">>

(***************************************************************************)
(* DS5 USB: the order of the motor frame and the auto-stop frame.          *)
(***************************************************************************)
\* The record is staged under 'feedback' and no flush has written it yet.
FeedbackStaged(outputs) == \E i \in 1..Len(outputs) : outputs[i].key = "feedback"

\* The step is the firing of the auto-stop task.
AutoStopFires == ret'.handler = "clear_feedback" /\ stops' = stops + 1

\* C35: on DS5 USB the frame carrying the non-zero motor value of a feedback
\* call is written before any frame carrying the auto-stop zeros: when the
\* auto-stop task fires on non-zero motor fields, the record staged by the
\* feedback call is not still waiting for a flush (a record still staged is
\* the one clear_feedback zeroes, so the flush that follows writes zeros and
\* the non-zero value is never written).
C35_MotorFrameBeforeStop ==
    [][(kind = "DS5Controller" /\ AutoStopFires
        /\ (self.motor_right # 0 \/ self.motor_left # 0))
       => ~FeedbackStaged(self.outputs)]_vars

(***************************************************************************)
(* What a failed construction leaves behind.                               *)
(***************************************************************************)
\* make_bt_hidraw_callback has returned None.
ReturnedNone == ret.handler = "make_bt_hidraw_callback" /\ phase # "live"

\* C36: whenever make_bt_hidraw_callback returns no controller, whichever
\* step failed, no descriptor of the device is left registered with the poll
\* loop and the daemon's controllers are what they were before the call.
C36_FailureLeavesNothing ==
    /\ [](ReturnedNone => ~registered)
    /\ [][(ret'.handler = "make_bt_hidraw_callback" /\ phase = "absent" /\ phase' # "live")
          => controllers' = controllers]_vars

(***************************************************************************)
(* A running motor and its scheduled stop.                                 *)
(***************************************************************************)
\* A motor field of the controller's feedback record is non-zero.
MotorRunning == self.motor_right # 0 \/ self.motor_left # 0

\* C37: for a DS5 controller with a mapper attached, between callbacks, a
\* non-zero motor field of the feedback record comes with a pending
\* auto-stop task.
C37_RunningMotorHasStop ==
    (kind \in DS5Feedback /\ phase = "live" /\ mapper /\ MotorRunning) => tasks # {}

(***************************************************************************)
(* The old state of a dispatch of the DS5 Bluetooth controller.            *)
(***************************************************************************)
\* The step is an _input call whose frame was accepted.
AcceptedFrame == ret'.handler = "_input" /\ ret'.args[1][1] = DS5_INPUT_REPORT

\* C38: the controller starts with the all-zero state remembered; an
\* accepted frame is dispatched, when a mapper is attached, with the
\* remembered state as old state and the state decoded from the frame, a
\* different object, as new state, and the decoded state is remembered
\* whether or not it was dispatched; nothing else changes the remembered
\* state.
C38_OldStateIsLastAccepted ==
    /\ [](ret = NoRet => self._old_state = DualSenseBTControllerInput(1))
    /\ [][IF AcceptedFrame
          THEN /\ self'._old_state.decoded = _convert_input_data(ret'.args[1])
               /\ self'._old_state.obj # self._old_state.obj
               /\ \A i \in 1..Len(io') : io'[i].op = "mapper.input" =>
                     io'[i].data = <<self._old_state, self'._old_state>>
               /\ mapper <=> \E i \in 1..Len(io') : io'[i].op = "mapper.input"
          ELSE self'._old_state = self._old_state]_vars

\* C38 witness: a dispatch whose old state is the one decoded from the
\* frame accepted before it (pitch rate 2880), the second structure
\* allocated, and whose new state is the third.
C38_Witness ==
    /\ ret.handler = "_input" /\ mapper
    /\ \E i \in 1..Len(io) :
          /\ io[i].op = "mapper.input"
          /\ io[i].data[1].gyro.gpitch = 2880 /\ io[i].data[1].obj = 2
          /\ io[i].data[2].gyro.gpitch = 0 /\ io[i].data[2].obj = 3
          /\ self._old_state = io[i].data[2]

(***************************************************************************)
(* The specification of the single functions: one call on drawn arguments. *)
(***************************************************************************)
InitFn ==
    /\ \/ fnIn \in EvdevInputs
       \/ fnIn \in StickInputs
       \/ fnIn \in DecodeInputs
       \/ fnIn \in ButtonInputs
       \/ fnIn \in QuatInputs
       \/ fnIn \in FeedbackInputs
       \/ fnIn \in UsbInputs
       \/ fnIn \in TouchEventInputs
    /\ fnOut = NoOut
    /\ IdleIds
    /\ IdleCrc
    /\ IdleDrv
    /\ IdleInit

NextFn ==
    \/ CallMakeEvdevDevice
    \/ CallStickAxisScale
    \/ CallConvertInputData
    \/ CallLoadHidDescriptor
    \/ CallCalculateQuaternion
    \/ CallFeedback
    \/ CallInput
    \/ CallTouchpadEvent

SpecFn == InitFn /\ [][NextFn]_vars

=============================================================================
